---- MODULE Spec2Model ----
(***************************************************************************)
(* Model of girim8/jodal, src/app.py: the secret redaction, the legacy     *)
(* (.hwp) conversion pipeline with its two attempts, the upload batch      *)
(* processor and the LLM call with credential fallback.                    *)
(*                                                                         *)
(* Text is a sequence of one-character strings, so that the regular        *)
(* expressions of _redact_secrets act on characters.  Status and log       *)
(* messages are sequences of fragments (the pieces of the f-strings); the  *)
(* Korean literals of the source are written in ASCII, each with the       *)
(* original beside it.                                                     *)
(***************************************************************************)
EXTENDS Integers, Sequences, FiniteSets, TLC

VARIABLES
    \* ---- _redact_secrets applied to one input (SpecRedact)
    r_in, r_once, r_twice, r_pc,
    \* ---- call_gpt_with_fallback (SpecGpt)
    g_pc,         \* "start", "loop", "returned", "raised"
    g_openai,     \* whether `from openai import OpenAI` succeeds
    g_env,        \* os.environ.get("OPENAI_API_KEY"); <<>> when unset or empty
    g_api_keys,   \* the module-level list API_KEYS
    g_messages,   \* the caller's messages
    g_keys,       \* the local list keys
    g_safe,       \* the local list safe_messages
    g_idx,        \* the loop index idx (1-based)
    g_errors,     \* the local list errors
    g_sent,       \* every request made: [idx, key, messages], in order
    g_result,     \* the returned pair, or the raised exception
    \* ---- handle_uploaded_source_files and the legacy pipeline (Spec)
    uploaded_files,   \* the argument: a sequence of [name, data]
    b_pc,             \* "loop", "a1", "a1_run", "a1_render", "a2", "a2_run",
                      \* "hwp_ret", "done", "raised"
    b_i,              \* the position of the for loop (1-based)
    combined_texts, convert_logs, generated_pdfs,
    b_ret,            \* what the call returned, or the exception that left it
    hwp,              \* the locals of _convert_hwp_priority for the current file,
                      \* and what its two attempts met
    fs,               \* the temporary files and directories that exist
    calls,            \* the external tools run for the current file, in order
    \* ---- the report request of main (SpecReport)
    m_pc,             \* "clicked", "batch", "gpt", "end", "crashed"
    m_extra,          \* gpt_extra_req, the user's additional request
    m_shown,          \* what st.error / st.warning / st.markdown displayed, in order
    m_session,        \* st.session_state: gpt_report_md and generated_src_pdfs
    \* ---- build_attachment_matrix (SpecMatrix)
    mx_df,            \* the rows of df_like that iterrows() has yielded, each a
                      \* sequence of cells
    mx_has_title,     \* whether title_col is a column of df_like
    mx_pc,            \* "start", "rows", "returned", "raised"
    mx_buckets,       \* buckets, in insertion order
    mx_adds,          \* every call of add_link: [title, category, name, url]
    mx_ret,           \* the returned frame, or the exception
    \* ---- _decode_best_effort applied to one input (SpecDecode)
    d_raw,            \* the argument raw: a sequence of bytes
    d_pc,             \* "start", "returned"
    d_ret,            \* the returned string
    \* ---- extract_text_from_pdf / extract_text_from_hwpx_bytes applied to
    \* ---- one document (SpecExtract)
    x_doc,            \* the argument: what the bytes hold
    x_pc,             \* "start", "returned"
    x_ret             \* the returned string

redactVars == <<r_in, r_once, r_twice, r_pc>>
gptVars == <<g_pc, g_openai, g_env, g_api_keys, g_messages, g_keys, g_safe,
             g_idx, g_errors, g_sent, g_result>>
batchVars == <<uploaded_files, b_pc, b_i, combined_texts, convert_logs,
               generated_pdfs, b_ret, hwp, fs, calls>>
mainVars == <<m_pc, m_extra, m_shown, m_session>>
matrixVars == <<mx_df, mx_has_title, mx_pc, mx_buckets, mx_adds, mx_ret>>
decodeVars == <<d_raw, d_pc, d_ret>>
extractVars == <<x_doc, x_pc, x_ret>>
vars == <<redactVars, gptVars, batchVars, mainVars, matrixVars, decodeVars,
          extractVars>>

-----------------------------------------------------------------------------
(* Characters and small text helpers                                       *)

Lower == {"a","b","c","d","e","f","g","h","i","j","k","l","m",
          "n","o","p","q","r","s","t","u","v","w","x","y","z"}
Upper == {"A","B","C","D","E","F","G","H","I","J","K","L","M",
          "N","O","P","Q","R","S","T","U","V","W","X","Y","Z"}
Digit == {"0","1","2","3","4","5","6","7","8","9"}

\* the class [A-Za-z0-9_\-] of the key pattern
KeyClass == Lower \cup Upper \cup Digit \cup {"_", "-"}

\* the class \s of Python's re for str patterns (ASCII part)
WhiteSpace == {" ", "\t", "\n", "\r", "\f"}

\* the quote class ["']
Quotes == {"\"", "'"}

Rep(c, n) == [i \in 1..n |-> c]

\* s[i..] starts with the literal lit
MatchAt(s, i, lit) ==
    /\ i + Len(lit) - 1 <= Len(s)
    /\ \A k \in 1..Len(lit) : s[i + k - 1] = lit[k]

StartsWith(s, lit) == MatchAt(s, 1, lit)

EndsWith(s, lit) ==
    /\ Len(lit) <= Len(s)
    /\ MatchAt(s, Len(s) - Len(lit) + 1, lit)

\* the length of the longest run of characters of class cls starting at s[i]
RECURSIVE RunLen(_, _, _)
RunLen(s, i, cls) ==
    IF i > Len(s) \/ s[i] \notin cls THEN 0 ELSE 1 + RunLen(s, i + 1, cls)

\* str.strip(): leading and trailing whitespace removed
RECURSIVE LStrip(_)
LStrip(s) ==
    IF s # <<>> /\ Head(s) \in WhiteSpace THEN LStrip(Tail(s)) ELSE s

RECURSIVE RStrip(_)
RStrip(s) ==
    IF s # <<>> /\ s[Len(s)] \in WhiteSpace
    THEN RStrip(SubSeq(s, 1, Len(s) - 1)) ELSE s

Strip(s) == RStrip(LStrip(s))

\* sep.join(parts)
RECURSIVE Join(_, _)
Join(sep, parts) ==
    IF parts = <<>> THEN <<>>
    ELSE IF Len(parts) = 1 THEN parts[1]
    ELSE parts[1] \o sep \o Join(sep, Tail(parts))

RECURSIVE Concat(_)
Concat(parts) == IF parts = <<>> THEN <<>> ELSE Head(parts) \o Concat(Tail(parts))

\* the sequences over S of length at most n
SeqsUpTo(S, n) == UNION { [1..k -> S] : k \in 0..n }

-----------------------------------------------------------------------------
(* _redact_secrets (src/app.py:41-46)                                      *)

\* {20,} in r'sk-[A-Za-z0-9_\-]{20,}'
KeyMinLen == 20

SK == <<"s","k","-">>
REDACTED_KEY == <<"[","R","E","D","A","C","T","E","D","_","K","E","Y","]">>
OPENAI_API_KEY == <<"O","P","E","N","A","I","_","A","P","I","_","K","E","Y">>

\* the replacement 'OPENAI_API_KEY="[REDACTED]"'
RedactedAssignmentOpen ==
    OPENAI_API_KEY \o <<"=","\"","[","R","E","D","A","C","T","E","D","]">>
RedactedAssignment == RedactedAssignmentOpen \o <<"\"">>

\* length of the match of sk-[A-Za-z0-9_\-]{20,} at s[i], 0 when none
\* (the quantifier is greedy: the whole run of class characters is taken)
KeyMatchLen(s, i) ==
    IF MatchAt(s, i, SK) /\ RunLen(s, i + 3, KeyClass) >= KeyMinLen
    THEN 3 + RunLen(s, i + 3, KeyClass) ELSE 0

\* is there a match of the key pattern anywhere in s
HasKey(s) == \E i \in 1..Len(s) : KeyMatchLen(s, i) > 0

\* re.sub(r'sk-[A-Za-z0-9_\-]{20,}', '[REDACTED_KEY]', s): leftmost matches,
\* not overlapping, from s[i] on
\* the start of the leftmost match of the key pattern at or after s[i], 0 when none
NextKey(s, i) ==
    LET M == {j \in i..Len(s) : KeyMatchLen(s, j) > 0} IN
    IF M = {} THEN 0 ELSE CHOOSE j \in M : \A k \in M : j <= k

RECURSIVE SubKeys(_, _)
SubKeys(s, i) ==
    LET j == NextKey(s, i) IN
    IF j = 0 THEN SubSeq(s, i, Len(s))
    ELSE SubSeq(s, i, j - 1) \o REDACTED_KEY \o SubKeys(s, j + KeyMatchLen(s, j))

\* the first index j >= i with s[j] a quote and no newline in s[i..j-1];
\* 0 when a newline or the end of s comes first ('.' matches no newline,
\* '.*?' is lazy)
RECURSIVE ClosingQuote(_, _)
ClosingQuote(s, i) ==
    IF i > Len(s) THEN 0
    ELSE IF s[i] \in Quotes THEN i
    ELSE IF s[i] = "\n" THEN 0
    ELSE ClosingQuote(s, i + 1)

\* length of the match of OPENAI_API_KEY\s*=\s*["'].*?["'] at s[i], 0 when none
AssignMatchLen(s, i) ==
    IF ~MatchAt(s, i, OPENAI_API_KEY) THEN 0
    ELSE LET e == i + Len(OPENAI_API_KEY) + RunLen(s, i + Len(OPENAI_API_KEY), WhiteSpace) IN
         IF e > Len(s) \/ s[e] # "=" THEN 0
         ELSE LET q == e + 1 + RunLen(s, e + 1, WhiteSpace) IN
              IF q > Len(s) \/ s[q] \notin Quotes THEN 0
              ELSE LET c == ClosingQuote(s, q + 1) IN
                   IF c = 0 THEN 0 ELSE c - i + 1

\* re.sub(r'OPENAI_API_KEY\s*=\s*["\'].*?["\']', 'OPENAI_API_KEY="[REDACTED]"', s)
\* the start of the leftmost match of the assignment pattern at or after
\* s[i], 0 when none
NextAssignment(s, i) ==
    LET M == {j \in i..Len(s) : AssignMatchLen(s, j) > 0} IN
    IF M = {} THEN 0 ELSE CHOOSE j \in M : \A k \in M : j <= k

RECURSIVE SubAssignments(_, _)
SubAssignments(s, i) ==
    LET j == NextAssignment(s, i) IN
    IF j = 0 THEN SubSeq(s, i, Len(s))
    ELSE SubSeq(s, i, j - 1) \o RedactedAssignment
         \o SubAssignments(s, j + AssignMatchLen(s, j))

_redact_secrets(text) == SubAssignments(SubKeys(text, 1), 1)

RedactIdle ==
    /\ r_in = <<>>
    /\ r_once = <<>>
    /\ r_twice = <<>>
    /\ r_pc = "idle"

-----------------------------------------------------------------------------
(* call_gpt_with_fallback (src/app.py:571-611)                             *)

MaxApiKeys == 2
MaxMessages == 2

\* a text with nothing to redact
PlainText == <<"h","i">>
\* a text that holds a key-shaped token
KeyToken == SK \o Rep("a", KeyMinLen)
LeakText == <<"k","e","y"," ">> \o KeyToken \o <<" ","e","n","d">>
\* a text that holds an assignment of the environment variable
AssignText == OPENAI_API_KEY \o <<" ","="," ","\"","x","y","\"">>

\* "sk-REPLACE_", the prefix of a template value of API_KEYS
SK_REPLACE == SK \o <<"R","E","P","L","A","C","E","_">>

EnvKey == SK \o <<"e","n","v">>
AppKey == SK \o <<"a","p","p">>
TemplateKey == SK_REPLACE \o <<"M","E">>

\* guardrail_system (lines 585-591); its Korean content is abbreviated
guardrail_system ==
    [role |-> "system", content |-> <<"g","u","a","r","d","r","a","i","l">>]

GptContents == {PlainText, LeakText, AssignText}
GptMessages == [role : {"system", "user"}, content : GptContents]

RECURSIVE SelectSeq2(_, _)
SelectSeq2(s, keep) ==
    IF s = <<>> THEN <<>>
    ELSE (IF Head(s) \in keep THEN <<Head(s)>> ELSE <<>>) \o SelectSeq2(Tail(s), keep)

\* a mutant of CandidateKeys: the entries of API_KEYS come before the
\* environment key
CandidateKeysAppFirst(env, api_keys) ==
    SelectSeq2(api_keys,
               { k \in {api_keys[i] : i \in 1..Len(api_keys)} :
                     k # <<>> /\ ~StartsWith(k, SK_REPLACE) })
    \o (IF env # <<>> THEN <<env>> ELSE <<>>)

\* lines 577-580: the environment key first, then the entries of API_KEYS
\* that are non-empty and no template value
CandidateKeys(env, api_keys) ==
    (IF env # <<>> THEN <<env>> ELSE <<>>)
    \o SelectSeq2(api_keys,
                  { k \in {api_keys[i] : i \in 1..Len(api_keys)} :
                        k # <<>> /\ ~StartsWith(k, SK_REPLACE) })

\* a mutant of SafeMessages: the caller's content is passed on as it is
SafeMessagesUnredacted(messages) ==
    <<guardrail_system>> \o messages

\* lines 593-595: safe_messages
SafeMessages(messages) ==
    <<guardrail_system>>
    \o [i \in 1..Len(messages) |->
           [role |-> messages[i].role,
            content |-> _redact_secrets(messages[i].content)]]

\* lines 1042-1045: the session state of a fresh session; no request made
MainIdle ==
    /\ m_pc = "idle"
    /\ m_extra = <<>>
    /\ m_shown = <<>>
    /\ m_session = [gpt_report_md |-> [kind |-> "none"], generated_src_pdfs |-> <<>>]

ExtractIdle ==
    /\ x_doc = [kind |-> "none"]
    /\ x_pc = "idle"
    /\ x_ret = <<>>

DecodeIdle ==
    /\ d_raw = <<>>
    /\ d_pc = "idle"
    /\ d_ret = [kind |-> "none"]

MatrixIdle ==
    /\ mx_df = <<>>
    /\ mx_has_title = FALSE
    /\ mx_pc = "idle"
    /\ mx_buckets = <<>>
    /\ mx_adds = <<>>
    /\ mx_ret = [kind |-> "none"]

GptIdle ==
    /\ g_pc = "idle"
    /\ g_openai = FALSE
    /\ g_env = <<>>
    /\ g_api_keys = <<>>
    /\ g_messages = <<>>
    /\ g_keys = <<>>
    /\ g_safe = <<>>
    /\ g_idx = 0
    /\ g_errors = <<>>
    /\ g_sent = <<>>
    /\ g_result = [kind |-> "none"]

-----------------------------------------------------------------------------
(* Paths: os.path.basename, os.path.splitext, str.lower                    *)

UpperSeq == <<"A","B","C","D","E","F","G","H","I","J","K","L","M",
              "N","O","P","Q","R","S","T","U","V","W","X","Y","Z">>
LowerSeq == <<"a","b","c","d","e","f","g","h","i","j","k","l","m",
              "n","o","p","q","r","s","t","u","v","w","x","y","z">>

LowerChar(c) ==
    IF c \in Upper THEN LowerSeq[CHOOSE k \in 1..26 : UpperSeq[k] = c] ELSE c

StrLower(s) == [k \in 1..Len(s) |-> LowerChar(s[k])]

\* the largest index of character c in s, 0 when there is none (str.rfind + 1)
RFind(s, c) ==
    IF \E k \in 1..Len(s) : s[k] = c
    THEN CHOOSE k \in 1..Len(s) : s[k] = c /\ \A m \in (k + 1)..Len(s) : s[m] # c
    ELSE 0

basename(p) == SubSeq(p, RFind(p, "/") + 1, Len(p))

\* os.path.splitext: the extension starts at the last dot after the last
\* separator, unless only dots precede it in the file name
SplitAt(p) ==
    LET sep == RFind(p, "/")
        dot == RFind(p, ".")
    IN  IF dot > sep /\ \E k \in (sep + 1)..(dot - 1) : p[k] # "."
        THEN dot ELSE Len(p) + 1

splitext_root(p) == SubSeq(p, 1, SplitAt(p) - 1)
splitext_ext(p) == SubSeq(p, SplitAt(p), Len(p))

-----------------------------------------------------------------------------
(* Byte strings.  A PDF is not parsed here: its bytes are modelled by what *)
(* PyPDF2 makes of them.                                                   *)
(*   [kind |-> "none"]                  None                               *)
(*   [kind |-> "empty"]                 b"" (falsy)                        *)
(*   [kind |-> "corrupt"]               PdfReader raises                   *)
(*   [kind |-> "pdf", pages |-> ...]    per page: [kind |-> "text", text], *)
(*                                      [kind |-> "none"] (extract_text()  *)
(*                                      returns None), [kind |-> "raise"]  *)
(*   [kind |-> "rendered", engine]      a PDF made by markdown_to_pdf_korean *)

None == [kind |-> "none"]
EmptyBytes == [kind |-> "empty"]

Truthy(bytes) == bytes.kind \notin {"none", "empty"}

\* "[PDF 추출 실패] " (line 360)
PDF_FAIL_MARKER == <<"[","P","D","F"," ","F","A","I","L","]"," ">>
\* str(e) of the exception caught at line 359
ReaderError == <<"E","O","F">>
PageError == <<"p","a","g","e">>

PageText(page) == IF page.kind = "text" THEN page.text ELSE <<>>

\* a mutant of extract_text_from_pdf: the error string is not marked
extract_text_from_pdf_unmarked(file_bytes) ==
    IF file_bytes.kind # "pdf" THEN ReaderError
    ELSE IF \E k \in 1..Len(file_bytes.pages) : file_bytes.pages[k].kind = "raise"
    THEN PageError
    ELSE Strip(Join(<<"\n">>, [k \in 1..Len(file_bytes.pages) |-> PageText(file_bytes.pages[k])]))

\* extract_text_from_pdf (lines 350-360): one try block around the reader
\* and the whole page loop
extract_text_from_pdf(file_bytes) ==
    IF file_bytes.kind # "pdf"
    THEN PDF_FAIL_MARKER \o ReaderError
    ELSE IF \E k \in 1..Len(file_bytes.pages) : file_bytes.pages[k].kind = "raise"
    THEN PDF_FAIL_MARKER \o PageError
    ELSE Strip(Join(<<"\n">>, [k \in 1..Len(file_bytes.pages) |-> PageText(file_bytes.pages[k])]))

-----------------------------------------------------------------------------
(* extract_text_from_hwpx_bytes (lines 363-392).  The archive is            *)
(*   [kind |-> "notzip"]  or                                               *)
(*   [kind |-> "zip", entries |-> sequence of                              *)
(*        [name, ok (the XML parses), elems |-> sequence of [tag, text]]]  *)

AsciiPrintable ==
    <<" ","!","\"","#","$","%","&","'","(",")","*","+",",","-",".","/",
      "0","1","2","3","4","5","6","7","8","9",":",";","<","=",">","?",
      "@","A","B","C","D","E","F","G","H","I","J","K","L","M","N","O",
      "P","Q","R","S","T","U","V","W","X","Y","Z","[","\\","]","^","_",
      "grave","a","b","c","d","e","f","g","h","i","j","k","l","m","n","o",
      "p","q","r","s","t","u","v","w","x","y","z","{","|","}","~">>

\* the code point of an ASCII character (the grave accent, code 96, is
\* written "grave")
Ord(c) ==
    IF c = "\t" THEN 9 ELSE IF c = "\n" THEN 10 ELSE IF c = "\f" THEN 12
    ELSE IF c = "\r" THEN 13
    ELSE 31 + (CHOOSE k \in 1..Len(AsciiPrintable) : AsciiPrintable[k] = c)

\* a < b for str
RECURSIVE StrLess(_, _)
StrLess(a, b) ==
    IF b = <<>> THEN FALSE
    ELSE IF a = <<>> THEN TRUE
    ELSE IF Head(a) = Head(b) THEN StrLess(Tail(a), Tail(b))
    ELSE Ord(Head(a)) < Ord(Head(b))

\* a mutant of SortByName: the entries stay in the order of the archive
KeepArchiveOrder(es) == es

\* list.sort() of entries by name
RECURSIVE SortByName(_)
SortByName(es) ==
    IF es = <<>> THEN <<>>
    ELSE LET m == CHOOSE k \in 1..Len(es) :
                     \A j \in 1..Len(es) :
                         ~StrLess(es[j].name, es[k].name) /\ (es[j].name = es[k].name => k <= j)
         IN <<es[m]>> \o SortByName([j \in 1..(Len(es) - 1) |-> IF j < m THEN es[j] ELSE es[j + 1]])

CONTENTS_DIR == <<"C","o","n","t","e","n","t","s","/">>
DOT_XML == <<".","x","m","l">>

\* "[HWPX ZIP 열기 실패] " (line 392) and its exception text
HWPX_ZIP_FAIL == <<"[","H","W","P","X"," ","Z","I","P"," ","F","A","I","L","]"," ","b","a","d">>
\* f"[{name} 파싱 경고] {e}" (line 389)
HwpxWarning(name) == <<"[">> \o name \o <<" ","W","A","R","N","]"," ","x","m","l">>

\* lines 381-385: the text of the elements whose tag ends in t, para or run
ElemKept(e) ==
    /\ \/ EndsWith(e.tag, <<"t">>)
       \/ EndsWith(e.tag, <<"p","a","r","a">>)
       \/ EndsWith(e.tag, <<"r","u","n">>)
    /\ Strip(e.text) # <<>>

RECURSIVE TextParts(_)
TextParts(elems) ==
    IF elems = <<>> THEN <<>>
    ELSE (IF ElemKept(Head(elems)) THEN <<Strip(Head(elems).text)>> ELSE <<>>)
         \o TextParts(Tail(elems))

\* lines 376-389: the out_lines of the section files, in order
RECURSIVE OutLines(_)
OutLines(es) ==
    IF es = <<>> THEN <<>>
    ELSE LET e == Head(es) IN
         (IF ~e.ok THEN <<HwpxWarning(e.name)>>
          ELSE IF TextParts(e.elems) # <<>> THEN <<Join(<<"\n">>, TextParts(e.elems))>>
          ELSE <<>>)
         \o OutLines(Tail(es))

\* line 373
IsSectionFile(e) ==
    StartsWith(e.name, CONTENTS_DIR) /\ EndsWith(StrLower(e.name), DOT_XML)

RECURSIVE SectionFiles(_)
SectionFiles(es) ==
    IF es = <<>> THEN <<>>
    ELSE (IF IsSectionFile(Head(es)) THEN <<Head(es)>> ELSE <<>>) \o SectionFiles(Tail(es))

extract_text_from_hwpx_bytes(hwpx_bytes) ==
    IF hwpx_bytes.kind # "zip" THEN HWPX_ZIP_FAIL
    ELSE Strip(Join(<<"\n","\n">>,
                    OutLines(SortByName(SectionFiles(hwpx_bytes.entries)))))

-----------------------------------------------------------------------------
(* _decode_best_effort (lines 48-54).  Bytes are numbers 0..255; a decoded *)
(* ASCII byte is its character, any other decoded character is named by   *)
(* its codec and bytes.                                                    *)

Chr(b) ==
    IF b = 9 THEN "\t" ELSE IF b = 10 THEN "\n" ELSE IF b = 12 THEN "\f"
    ELSE IF b = 13 THEN "\r"
    ELSE IF b >= 32 /\ b <= 126 THEN AsciiPrintable[b - 31]
    ELSE "\\x" \o ToString(b)

IsCont(b) == b >= 128 /\ b <= 191

\* the length of the UTF-8 sequence that starts at raw[i]; 0 when the bytes
\* there are not valid UTF-8
Utf8SeqLen(raw, i) ==
    LET b == raw[i]
        has(n) == i + n - 1 <= Len(raw) /\ \A k \in 1..(n - 1) : IsCont(raw[i + k])
    IN  IF b < 128 THEN 1
        ELSE IF b >= 194 /\ b <= 223 /\ has(2) THEN 2
        ELSE IF b >= 224 /\ b <= 239 /\ has(3)
                /\ (b = 224 => raw[i + 1] >= 160)
                /\ (b = 237 => raw[i + 1] <= 159) THEN 3
        ELSE IF b >= 240 /\ b <= 244 /\ has(4)
                /\ (b = 240 => raw[i + 1] >= 144)
                /\ (b = 244 => raw[i + 1] <= 143) THEN 4
        ELSE 0

RECURSIVE ByteTag(_, _, _)
ByteTag(raw, i, n) ==
    IF n = 0 THEN "" ELSE ":" \o ToString(raw[i]) \o ByteTag(raw, i + 1, n - 1)

MultiByteChar(codec, raw, i, n) == codec \o ByteTag(raw, i, n)

RECURSIVE Utf8Valid(_, _)
Utf8Valid(raw, i) ==
    IF i > Len(raw) THEN TRUE
    ELSE Utf8SeqLen(raw, i) > 0 /\ Utf8Valid(raw, i + Utf8SeqLen(raw, i))

\* decode the valid sequences; an invalid byte is dropped (errors="ignore")
RECURSIVE Utf8Chars(_, _)
Utf8Chars(raw, i) ==
    IF i > Len(raw) THEN <<>>
    ELSE LET n == Utf8SeqLen(raw, i) IN
         IF n = 0 THEN Utf8Chars(raw, i + 1)
         ELSE IF n = 1 THEN <<Chr(raw[i])>> \o Utf8Chars(raw, i + 1)
         ELSE <<MultiByteChar("utf8", raw, i, n)>> \o Utf8Chars(raw, i + n)

BOM == <<239, 187, 191>>

\* the length of the cp949 / euc-kr sequence at raw[i]; 0 when invalid.
\* The lead and trail byte ranges of the code pages are modelled (the letter
\* trail bytes of cp949 follow lead bytes up to 0xC6 only), not their
\* unassigned cells.
Cp949SeqLen(raw, i) ==
    LET b == raw[i] IN
    IF b < 128 THEN 1
    ELSE IF b >= 129 /\ b <= 254 /\ i + 1 <= Len(raw)
            /\ \/ b <= 198 /\ raw[i + 1] >= 65 /\ raw[i + 1] <= 90
               \/ b <= 198 /\ raw[i + 1] >= 97 /\ raw[i + 1] <= 122
               \/ raw[i + 1] >= 129 /\ raw[i + 1] <= 254 THEN 2
    ELSE 0

EucKrSeqLen(raw, i) ==
    LET b == raw[i] IN
    IF b < 128 THEN 1
    ELSE IF b >= 161 /\ b <= 254 /\ i + 1 <= Len(raw)
            /\ raw[i + 1] >= 161 /\ raw[i + 1] <= 254 THEN 2
    ELSE 0

DbcsSeqLen(codec, raw, i) ==
    IF codec = "cp949" THEN Cp949SeqLen(raw, i) ELSE EucKrSeqLen(raw, i)

RECURSIVE DbcsValid(_, _, _)
DbcsValid(codec, raw, i) ==
    IF i > Len(raw) THEN TRUE
    ELSE DbcsSeqLen(codec, raw, i) > 0 /\ DbcsValid(codec, raw, i + DbcsSeqLen(codec, raw, i))

RECURSIVE DbcsChars(_, _, _)
DbcsChars(codec, raw, i) ==
    IF i > Len(raw) THEN <<>>
    ELSE IF DbcsSeqLen(codec, raw, i) = 1 THEN <<Chr(raw[i])>> \o DbcsChars(codec, raw, i + 1)
    ELSE <<MultiByteChar(codec, raw, i, 2)>> \o DbcsChars(codec, raw, i + 2)

\* a mutant of _decode_best_effort: cp949 is tried before the UTF-8 codecs
_decode_cp949_first(raw) ==
    LET body == IF StartsWith(raw, BOM) THEN SubSeq(raw, 4, Len(raw)) ELSE raw IN
    IF DbcsValid("cp949", raw, 1) THEN DbcsChars("cp949", raw, 1)
    ELSE IF Utf8Valid(body, 1) THEN Utf8Chars(body, 1)
    ELSE IF Utf8Valid(raw, 1) THEN Utf8Chars(raw, 1)
    ELSE IF DbcsValid("euckr", raw, 1) THEN DbcsChars("euckr", raw, 1)
    ELSE Utf8Chars(raw, 1)

_decode_best_effort(raw) ==
    LET body == IF StartsWith(raw, BOM) THEN SubSeq(raw, 4, Len(raw)) ELSE raw IN
    IF Utf8Valid(body, 1) THEN Utf8Chars(body, 1)                    \* utf-8-sig
    ELSE IF Utf8Valid(raw, 1) THEN Utf8Chars(raw, 1)                 \* utf-8
    ELSE IF DbcsValid("cp949", raw, 1) THEN DbcsChars("cp949", raw, 1)
    ELSE IF DbcsValid("euckr", raw, 1) THEN DbcsChars("euckr", raw, 1)
    ELSE Utf8Chars(raw, 1)                                           \* errors="ignore"

\* str.encode for ASCII text, to write the uploaded text files of the model
AsciiBytes(s) == [k \in 1..Len(s) |-> Ord(s[k])]

-----------------------------------------------------------------------------
(* markdown_to_pdf_korean / text_to_pdf_bytes_korean (lines 332-344).      *)
(* Which fonts and libraries the host has decides the outcome:             *)
(*   "no_font"    no font candidate (line 335)                             *)
(*   "reportlab"  the ReportLab path makes the PDF (line 339)              *)
(*   "pillow"     ReportLab fails and the Pillow path makes the PDF        *)
(*   "fail"       both paths fail                                          *)

RenderOutcomes == {"no_font", "reportlab", "pillow", "fail"}

text_to_pdf_bytes_korean(outcome) ==
    IF outcome = "reportlab"
    THEN [pdf |-> [kind |-> "rendered", engine |-> "reportlab"], dbg |-> <<"OK[ReportLab Markdown]">>]
    ELSE IF outcome = "pillow"
    THEN [pdf |-> [kind |-> "rendered", engine |-> "pillow"], dbg |-> <<"OK[Pillow text]">>]
    ELSE IF outcome = "no_font"
    THEN [pdf |-> None, dbg |-> <<"no Korean font found">>]
    ELSE [pdf |-> None, dbg |-> <<"Pillow PDF failed">>]

-----------------------------------------------------------------------------
(* The legacy pipeline: _run_hwp5txt_to_text (lines 400-422),              *)
(* _run_unoconv_hwp_to_pdf_bytes (427-462), _convert_hwp_priority (465-487) *)

\* status fragments; the source's Korean text is given beside each
HWP5TXT_MISSING == "hwp5txt not installed"            \* "hwp5txt 미설치"
HWP5TXT_TIMEOUT == "hwp5txt timeout"                  \* "hwp5txt 타임아웃"
CONVERTER_MISSING == "unoconv/soffice not installed"  \* "unoconv/soffice 미설치"
NO_PDF_RESULT == "PDF result file not found"          \* "PDF 결과 파일을 찾지 못함 ..."
ATTEMPT2_FAILED == "unoconv/soffice failed: "         \* "unoconv/soffice 실패: "
ATTEMPT1_FAILED == "hwp5txt failed . "                \* "hwp5txt 실패 · "

TXT_EXTRACT_PDF == <<"_","t","x","t","_","e","x","t","r","a","c","t",".","p","d","f">>
CONVERTED_PDF == <<"_","c","o","n","v","e","r","t","e","d",".","p","d","f">>
HWPX_EXTRACT_PDF == <<"_","h","w","p","x","_","e","x","t","r","a","c","t",".","p","d","f">>

\* what one run of hwp5txt can do: time out (120 s), fail to start, or exit
\* with a code and a standard output
Stdouts == { <<>>,
             <<" ","\n">>,
             <<" ","h","w","p"," ","t","e","x","t","\n">> }

A1Outcomes ==
    {[kind |-> "timeout"], [kind |-> "error"]}
    \cup [kind : {"exit"}, rc : {0, 1}, stdout : Stdouts]

\* lines 408-419: the pair (text, status) of _run_hwp5txt_to_text once the
\* tool has run
RunHwp5txtResult(out) ==
    IF out.kind = "timeout" THEN [txt |-> <<>>, dbg |-> <<HWP5TXT_TIMEOUT>>]
    ELSE IF out.kind = "error" THEN [txt |-> <<>>, dbg |-> <<"hwp5txt error: ", "OSError">>]
    ELSE IF out.rc = 0 /\ out.stdout # <<>>
    THEN [txt |-> Strip(out.stdout), dbg |-> <<"OK[hwp5txt]">>]
    ELSE [txt |-> <<>>, dbg |-> <<"hwp5txt failed: ", "stderr">>]

\* a mutant of Attempt1Next: Attempt 2 is entered whatever Attempt 1 gave
Attempt1NextAlwaysFallback(txt1) == "a2"

\* line 472: with a text, Attempt 1 is the result; without, Attempt 2 is entered
Attempt1Next(txt1) == IF txt1 # <<>> THEN "a1_render" ELSE "a2"

\* lines 473-475: the result of _convert_hwp_priority from Attempt 1
ConvertResult1(filename, txt1, dbg1, rendered) ==
    [txt |-> txt1,
     pdf |-> IF Truthy(rendered.pdf)
             THEN [name |-> splitext_root(basename(filename)) \o TXT_EXTRACT_PDF,
                   bytes |-> rendered.pdf]
             ELSE None,
     dbg |-> dbg1 \o <<" -> ">> \o rendered.dbg]

\* a mutant of ConverterFor: the office suite is preferred
ConverterForSofficeFirst(unoconv_bin, soffice_bin) ==
    IF soffice_bin THEN "soffice" ELSE IF unoconv_bin THEN "unoconv" ELSE "none"

\* lines 438-447: the converter that is run
ConverterFor(unoconv_bin, soffice_bin) ==
    IF unoconv_bin THEN "unoconv" ELSE IF soffice_bin THEN "soffice" ELSE "none"

\* what one run of the converter can do: time out (180 s), fail to start, or
\* exit with a code, leaving in the output directory no file, a file that is
\* no PDF, the PDF under the expected name or a PDF under another name
ConvertedPdfs ==
    { EmptyBytes,
      [kind |-> "corrupt"],
      [kind |-> "pdf", pages |-> << [kind |-> "text", text |-> <<" ","p","1"," ">>],
                                    [kind |-> "none"],
                                    [kind |-> "text", text |-> <<"p","3","\n">>] >>] }

A2Outcomes ==
    {[kind |-> "timeout"], [kind |-> "error"]}
    \cup [kind : {"exit"}, rc : {0, 1}, dir : {"none", "junk"}, pdf : {None}]
    \cup [kind : {"exit"}, rc : {0, 1}, dir : {"expected", "other"}, pdf : ConvertedPdfs]

\* lines 437-457: what the try block of _run_unoconv_hwp_to_pdf_bytes gives:
\* the pair (pdf_bytes, status), or the exception it raises
RunUnoconvResult(tool, out) ==
    IF tool = "none"
    THEN [raised |-> TRUE, exc |-> <<CONVERTER_MISSING>>]
    ELSE IF out.kind = "timeout" THEN [raised |-> TRUE, exc |-> <<"TimeoutExpired">>]
    ELSE IF out.kind = "error" THEN [raised |-> TRUE, exc |-> <<"OSError">>]
    ELSE IF tool = "unoconv" /\ out.rc # 0
    THEN [raised |-> TRUE, exc |-> <<"unoconv failed: ", "stderr">>]
    ELSE IF out.dir \in {"none", "junk"}
    THEN [raised |-> TRUE, exc |-> <<NO_PDF_RESULT>>]
    ELSE [raised |-> FALSE, pdf_bytes |-> out.pdf, dbg |-> <<"OK[unoconv/soffice->PDF]">>]

\* a mutant of ConvertFailure: the diagnostic is returned as the text too
ConvertFailureAsText(dbg1, dbg2) ==
    [txt |-> <<ATTEMPT1_FAILED>> \o dbg1 \o <<" / ">> \o dbg2, pdf |-> None,
     dbg |-> <<ATTEMPT1_FAILED>> \o dbg1 \o <<" / ">> \o dbg2]

\* line 487: both attempts gave nothing
ConvertFailure(dbg1, dbg2) ==
    [txt |-> <<>>, pdf |-> None,
     dbg |-> <<ATTEMPT1_FAILED>> \o dbg1 \o <<" / ">> \o dbg2]

\* a mutant of ConvertResult2: the artifact is named as Attempt 1 names it
\* and the text is taken without the PDF extraction
ConvertResult2Mixed(filename, dbg1, r2) ==
    IF r2.raised THEN ConvertFailure(dbg1, <<ATTEMPT2_FAILED>> \o r2.exc)
    ELSE [txt |-> <<>>,
          pdf |-> [name |-> splitext_root(basename(filename)) \o TXT_EXTRACT_PDF,
                   bytes |-> r2.pdf_bytes],
          dbg |-> r2.dbg \o <<" -> PDF text extraction">>]

\* lines 478-487: the result of _convert_hwp_priority from Attempt 2
ConvertResult2(filename, dbg1, r2) ==
    IF r2.raised THEN ConvertFailure(dbg1, <<ATTEMPT2_FAILED>> \o r2.exc)
    ELSE IF Truthy(r2.pdf_bytes)
    THEN [txt |-> extract_text_from_pdf(r2.pdf_bytes),
          pdf |-> [name |-> splitext_root(basename(filename)) \o CONVERTED_PDF,
                   bytes |-> r2.pdf_bytes],
          dbg |-> r2.dbg \o <<" -> PDF text extraction">>]
    ELSE ConvertFailure(dbg1, r2.dbg)

-----------------------------------------------------------------------------
(* handle_uploaded_source_files (lines 496-543)                            *)

MaxFiles == 2

HwpBytes == [kind |-> "hwp"]

TextPdf ==
    [kind |-> "pdf", pages |-> << [kind |-> "text", text |-> <<" ">> \o LeakText],
                                  [kind |-> "none"] >>]

HwpxArchive ==
    [kind |-> "zip",
     entries |-> << [name |-> CONTENTS_DIR \o <<"s","2">> \o DOT_XML, ok |-> FALSE,
                     elems |-> <<>>],
                    [name |-> <<"m","e","t","a">> \o DOT_XML, ok |-> TRUE,
                     elems |-> << [tag |-> <<"t">>, text |-> <<"n","o">>] >>],
                    [name |-> CONTENTS_DIR \o <<"s","1">> \o <<".","X","M","L">>, ok |-> TRUE,
                     elems |-> << [tag |-> <<"h","p",":","t">>, text |-> <<" ">> \o KeyToken],
                                  [tag |-> <<"h","p",":","p">>, text |-> <<"x">>],
                                  [tag |-> <<"r","u","n">>, text |-> <<" ">>] >>] >>]

FileName(root, ext) == root \o <<".">> \o ext

UploadedItems ==
    { [name |-> FileName(<<"a">>, <<"p","d","f">>), data |-> TextPdf],
      [name |-> FileName(<<"a">>, <<"P","D","F">>), data |-> [kind |-> "corrupt"]],
      [name |-> FileName(<<"b">>, <<"H","W","P">>), data |-> HwpBytes],
      [name |-> FileName(<<"c">>, <<"h","w","p","x">>), data |-> HwpxArchive],
      [name |-> FileName(KeyToken, <<"t","x","t">>), data |-> [kind |-> "bytes", raw |-> BOM \o AsciiBytes(LeakText)]],
      [name |-> FileName(<<"e">>, <<"d","o","c","x">>),
       data |-> [kind |-> "docx", paragraphs |-> <<PlainText, AssignText>>]],
      [name |-> FileName(<<"f">>, <<"z","i","p">>), data |-> [kind |-> "other"]] }

TEXT_EXTS == { <<".","t","x","t">>, <<".","c","s","v">>, <<".","m","d">>, <<".","l","o","g">> }

\* line 501
ExtOf(name) == StrLower(splitext_ext(name))

BANNER_OPEN == <<"\n","\n","=","=","=","=","="," ","[">>
BANNER_CLOSE == <<" ","=","=","=","=","=","\n">>
TAG_NONE == <<>>
TAG_HWPX == <<" ","(","H","W","P","X","-",">","T","X","T",")">>   \* " (HWPX→TXT)"
TAG_HWP == <<" ","(","H","W","P","-",">","T","X","T",")">>        \* " (HWP→TXT)"

\* a mutant of TextBlock: the extracted text is appended as extracted
TextBlockUnredacted(name, tag, txt) ==
    BANNER_OPEN \o name \o <<"]">> \o tag \o BANNER_CLOSE \o txt \o <<"\n">>

\* f"\n\n===== [{name}]{tag} =====\n{_redact_secrets(txt)}\n"
\* (lines 506, 514, 519, 528, 536)
TextBlock(name, tag, txt) ==
    BANNER_OPEN \o name \o <<"]">> \o tag \o BANNER_CLOSE \o _redact_secrets(txt) \o <<"\n">>

LogLine(name, kind, detail) == [name |-> name, kind |-> kind, detail |-> detail]

HwpFresh ==
    [a1 |-> "none", rc1 |-> 0, stdout1 |-> <<>>, txt1 |-> <<>>, dbg1 |-> <<>>,
     a2 |-> "none", tool2 |-> "none", rc2 |-> 0, made2 |-> None,
     unoconv_bin |-> FALSE, soffice_bin |-> FALSE,
     ret |-> [txt |-> <<>>, pdf |-> None, dbg |-> <<>>]]

BatchIdle ==
    /\ uploaded_files = <<>>
    /\ b_pc = "idle"
    /\ b_i = 0
    /\ combined_texts = <<>>
    /\ convert_logs = <<>>
    /\ generated_pdfs = <<>>
    /\ b_ret = [kind |-> "none"]
    /\ hwp = HwpFresh
    /\ fs = {}
    /\ calls = <<>>

BatchInit ==
    /\ uploaded_files \in SeqsUpTo(UploadedItems, MaxFiles)
    /\ b_pc = "loop"
    /\ b_i = 1
    /\ combined_texts = <<>>
    /\ convert_logs = <<>>
    /\ generated_pdfs = <<>>
    /\ b_ret = [kind |-> "none"]
    /\ hwp = HwpFresh
    /\ fs = {}
    /\ calls = <<>>
    /\ RedactIdle
    /\ GptIdle
    /\ MainIdle
    /\ MatrixIdle
    /\ DecodeIdle
    /\ ExtractIdle

AtItem(exts) ==
    /\ b_pc = "loop"
    /\ b_i <= Len(uploaded_files)
    /\ ExtOf(uploaded_files[b_i].name) \in exts

CurName == uploaded_files[b_i].name
CurData == uploaded_files[b_i].data

TempPath(what) == [item |-> b_i, what |-> what]

\* lines 503-506
ItemPdf ==
    /\ AtItem({<<".","p","d","f">>})
    /\ LET txt == extract_text_from_pdf(CurData) IN
       /\ convert_logs' = Append(convert_logs,
                                 LogLine(CurName, "pdf_done", <<ToString(Len(txt)), " chars">>))
       /\ combined_texts' = Append(combined_texts, TextBlock(CurName, TAG_NONE, txt))
    /\ b_i' = b_i + 1
    /\ UNCHANGED <<uploaded_files, b_pc, generated_pdfs, b_ret, hwp, fs, calls>>
    /\ UNCHANGED <<redactVars, gptVars, mainVars, matrixVars, decodeVars, extractVars>>

\* lines 508-514
ItemHwpx ==
    /\ AtItem({<<".","h","w","p","x">>})
    /\ \E outcome \in RenderOutcomes :
         LET txt == extract_text_from_hwpx_bytes(CurData)
             r == text_to_pdf_bytes_korean(outcome)
         IN /\ generated_pdfs' =
                  IF Truthy(r.pdf)
                  THEN Append(generated_pdfs,
                              [name |-> splitext_root(CurName) \o HWPX_EXTRACT_PDF,
                               bytes |-> r.pdf])
                  ELSE generated_pdfs
            /\ convert_logs' = Append(convert_logs, LogLine(CurName, "hwpx_done", r.dbg))
            /\ combined_texts' = Append(combined_texts, TextBlock(CurName, TAG_HWPX, txt))
    /\ b_i' = b_i + 1
    /\ UNCHANGED <<uploaded_files, b_pc, b_ret, hwp, fs, calls>>
    /\ UNCHANGED <<redactVars, gptVars, mainVars, matrixVars, decodeVars, extractVars>>

\* lines 526-529
ItemText ==
    /\ AtItem(TEXT_EXTS)
    /\ LET txt == _decode_best_effort(CurData.raw) IN
       /\ combined_texts' = Append(combined_texts, TextBlock(CurName, TAG_NONE, txt))
       /\ convert_logs' = Append(convert_logs, LogLine(CurName, "text_loaded", <<>>))
    /\ b_i' = b_i + 1
    /\ UNCHANGED <<uploaded_files, b_pc, generated_pdfs, b_ret, hwp, fs, calls>>
    /\ UNCHANGED <<redactVars, gptVars, mainVars, matrixVars, decodeVars, extractVars>>

\* lines 531-539: python-docx may be missing or fail on the file
ItemDocx ==
    /\ AtItem({<<".","d","o","c","x">>})
    /\ \E parsed \in BOOLEAN :
         IF parsed
         THEN /\ combined_texts' =
                    Append(combined_texts,
                           TextBlock(CurName, TAG_NONE, Join(<<"\n">>, CurData.paragraphs)))
              /\ convert_logs' = Append(convert_logs, LogLine(CurName, "docx_done", <<>>))
         ELSE /\ convert_logs' = Append(convert_logs, LogLine(CurName, "docx_failed", <<"exc">>))
              /\ UNCHANGED combined_texts
    /\ b_i' = b_i + 1
    /\ UNCHANGED <<uploaded_files, b_pc, generated_pdfs, b_ret, hwp, fs, calls>>
    /\ UNCHANGED <<redactVars, gptVars, mainVars, matrixVars, decodeVars, extractVars>>

HANDLED_EXTS ==
    TEXT_EXTS \cup { <<".","p","d","f">>, <<".","h","w","p","x">>, <<".","h","w","p">>,
                     <<".","d","o","c","x">> }

\* lines 541-542
ItemUnsupported ==
    /\ b_pc = "loop"
    /\ b_i <= Len(uploaded_files)
    /\ ExtOf(CurName) \notin HANDLED_EXTS
    /\ convert_logs' = Append(convert_logs, LogLine(CurName, "unsupported", <<>>))
    /\ b_i' = b_i + 1
    /\ UNCHANGED <<uploaded_files, b_pc, combined_texts, generated_pdfs, b_ret, hwp, fs, calls>>
    /\ UNCHANGED <<redactVars, gptVars, mainVars, matrixVars, decodeVars, extractVars>>

\* line 517: _convert_hwp_priority is entered
HwpStart ==
    /\ AtItem({<<".","h","w","p">>})
    /\ b_pc' = "a1"
    /\ hwp' = HwpFresh
    /\ calls' = <<>>
    /\ UNCHANGED <<uploaded_files, b_i, combined_texts, convert_logs, generated_pdfs, b_ret, fs>>
    /\ UNCHANGED <<redactVars, gptVars, mainVars, matrixVars, decodeVars, extractVars>>

\* lines 401-406: hwp5txt is looked up; when it is there, the temporary input
\* file is made and written, outside any try block
HwpAttempt1Setup ==
    /\ b_pc = "a1"
    /\ \E tool \in BOOLEAN, io \in {"ok", "mkstemp_fails", "write_fails"} :
         IF ~tool
         THEN /\ io = "ok"
              /\ hwp' = [hwp EXCEPT !.a1 = "missing", !.txt1 = <<>>,
                                    !.dbg1 = <<HWP5TXT_MISSING>>]
              /\ b_pc' = Attempt1Next(<<>>)
              /\ UNCHANGED <<fs, b_ret>>
         ELSE IF io = "ok"
         THEN /\ fs' = fs \cup {TempPath("in1")}
              /\ b_pc' = "a1_run"
              /\ UNCHANGED <<hwp, b_ret>>
         ELSE /\ fs' = IF io = "write_fails" THEN fs \cup {TempPath("in1")} ELSE fs
              /\ hwp' = [hwp EXCEPT !.a1 = "io_error"]
              /\ b_ret' = [kind |-> "raise", exc |-> "OSError"]
              /\ b_pc' = "raised"
    /\ UNCHANGED <<uploaded_files, b_i, combined_texts, convert_logs, generated_pdfs, calls>>
    /\ UNCHANGED <<redactVars, gptVars, mainVars, matrixVars, decodeVars, extractVars>>

\* lines 407-422: hwp5txt runs; the finally clause removes the input file
HwpAttempt1Run ==
    /\ b_pc = "a1_run"
    /\ calls' = Append(calls, "hwp5txt")
    /\ \E out \in A1Outcomes :
         LET r == RunHwp5txtResult(out) IN
         /\ hwp' = [hwp EXCEPT !.a1 = out.kind,
                               !.rc1 = IF out.kind = "exit" THEN out.rc ELSE 0,
                               !.stdout1 = IF out.kind = "exit" THEN out.stdout ELSE <<>>,
                               !.txt1 = r.txt, !.dbg1 = r.dbg]
         /\ b_pc' = Attempt1Next(r.txt)
    /\ fs' = fs \ {TempPath("in1")}
    /\ UNCHANGED <<uploaded_files, b_i, combined_texts, convert_logs, generated_pdfs, b_ret>>
    /\ UNCHANGED <<redactVars, gptVars, mainVars, matrixVars, decodeVars, extractVars>>

\* lines 472-475: the text of Attempt 1 is rendered to a PDF and returned
HwpAttempt1Render ==
    /\ b_pc = "a1_render"
    /\ \E outcome \in RenderOutcomes :
         hwp' = [hwp EXCEPT !.ret = ConvertResult1(CurName, hwp.txt1, hwp.dbg1,
                                                   text_to_pdf_bytes_korean(outcome))]
    /\ b_pc' = "hwp_ret"
    /\ UNCHANGED <<uploaded_files, b_i, combined_texts, convert_logs, generated_pdfs,
                   b_ret, fs, calls>>
    /\ UNCHANGED <<redactVars, gptVars, mainVars, matrixVars, decodeVars, extractVars>>

\* lines 428-435, inside the try of line 478: the converters are looked up,
\* the temporary input file is made and written and the output directory is
\* made, before the try block of line 437; an exception here is caught at
\* line 484
HwpAttempt2Setup ==
    /\ b_pc = "a2"
    /\ \E unoconv \in BOOLEAN, soffice \in BOOLEAN, libreoffice \in BOOLEAN,
          io \in {"ok", "mkstemp_fails", "write_fails", "mkdtemp_fails"} :
         IF io = "ok"
         THEN /\ fs' = fs \cup {TempPath("in2"), TempPath("out2")}
              /\ hwp' = [hwp EXCEPT !.a2 = "setup", !.unoconv_bin = unoconv,
                                    !.soffice_bin = soffice \/ libreoffice]
              /\ b_pc' = "a2_run"
         ELSE /\ fs' = IF io = "mkstemp_fails" THEN fs ELSE fs \cup {TempPath("in2")}
              /\ hwp' = [hwp EXCEPT !.a2 = "io_error", !.unoconv_bin = unoconv,
                                    !.soffice_bin = soffice \/ libreoffice,
                                    !.ret = ConvertFailure(hwp.dbg1, <<ATTEMPT2_FAILED, "OSError">>)]
              /\ b_pc' = "hwp_ret"
    /\ UNCHANGED <<uploaded_files, b_i, combined_texts, convert_logs, generated_pdfs,
                   b_ret, calls>>
    /\ UNCHANGED <<redactVars, gptVars, mainVars, matrixVars, decodeVars, extractVars>>

\* lines 437-462 and 479-487: the converter runs, the finally clause removes
\* the input file and the output directory, and _convert_hwp_priority returns
HwpAttempt2Run ==
    /\ b_pc = "a2_run"
    /\ LET tool == ConverterFor(hwp.unoconv_bin, hwp.soffice_bin) IN
       IF tool = "none"
       THEN /\ hwp' = [hwp EXCEPT !.a2 = "missing",
                                  !.ret = ConvertResult2(CurName, hwp.dbg1,
                                                         RunUnoconvResult(tool, [kind |-> "none"]))]
            /\ UNCHANGED calls
       ELSE /\ calls' = Append(calls, tool)
            /\ \E out \in A2Outcomes :
                 hwp' = [hwp EXCEPT !.a2 = out.kind, !.tool2 = tool,
                                    !.rc2 = IF out.kind = "exit" THEN out.rc ELSE 0,
                                    !.made2 = IF out.kind = "exit" THEN out.pdf ELSE None,
                                    !.ret = ConvertResult2(CurName, hwp.dbg1,
                                                           RunUnoconvResult(tool, out))]
    /\ fs' = fs \ {TempPath("in2"), TempPath("out2")}
    /\ b_pc' = "hwp_ret"
    /\ UNCHANGED <<uploaded_files, b_i, combined_texts, convert_logs, generated_pdfs, b_ret>>
    /\ UNCHANGED <<redactVars, gptVars, mainVars, matrixVars, decodeVars, extractVars>>

\* lines 517-524: the result of _convert_hwp_priority is taken up
HwpFinish ==
    /\ b_pc = "hwp_ret"
    /\ LET txt == hwp.ret.txt
           gen_pdf == hwp.ret.pdf
           line == LogLine(CurName, "hwp_status", hwp.ret.dbg)
       IN /\ combined_texts' = IF txt # <<>>
                               THEN Append(combined_texts, TextBlock(CurName, TAG_HWP, txt))
                               ELSE combined_texts
          /\ generated_pdfs' = IF gen_pdf # None /\ Truthy(gen_pdf.bytes)
                               THEN Append(generated_pdfs, gen_pdf)
                               ELSE generated_pdfs
          /\ convert_logs' = IF txt # <<>>
                             THEN Append(convert_logs, line)
                             ELSE convert_logs \o <<line, LogLine(CurName, "hwp_failed", <<>>)>>
    /\ b_i' = b_i + 1
    /\ b_pc' = "loop"
    /\ hwp' = HwpFresh
    /\ calls' = <<>>
    /\ UNCHANGED <<uploaded_files, b_ret, fs>>
    /\ UNCHANGED <<redactVars, gptVars, mainVars, matrixVars, decodeVars, extractVars>>

\* line 543
BatchReturn ==
    /\ b_pc = "loop"
    /\ b_i > Len(uploaded_files)
    /\ b_ret' = [kind |-> "return",
                 text |-> Strip(Join(<<"\n">>, combined_texts)),
                 logs |-> convert_logs,
                 pdfs |-> generated_pdfs]
    /\ b_pc' = "done"
    /\ UNCHANGED <<uploaded_files, b_i, combined_texts, convert_logs, generated_pdfs,
                   hwp, fs, calls>>
    /\ UNCHANGED <<redactVars, gptVars, mainVars, matrixVars, decodeVars, extractVars>>

Next ==
    \/ ItemPdf
    \/ ItemHwpx
    \/ ItemText
    \/ ItemDocx
    \/ ItemUnsupported
    \/ HwpStart
    \/ HwpAttempt1Setup
    \/ HwpAttempt1Run
    \/ HwpAttempt1Render
    \/ HwpAttempt2Setup
    \/ HwpAttempt2Run
    \/ HwpFinish
    \/ BatchReturn

Spec == BatchInit /\ [][Next]_vars

-----------------------------------------------------------------------------
(* call_gpt_with_fallback: the steps                                       *)

GptInit ==
    /\ g_pc = "start"
    /\ g_openai \in BOOLEAN
    /\ g_env \in {<<>>, EnvKey}
    /\ g_api_keys \in SeqsUpTo({<<>>, TemplateKey, AppKey}, MaxApiKeys)
    /\ g_messages \in SeqsUpTo(GptMessages, MaxMessages)
    /\ g_keys = <<>>
    /\ g_safe = <<>>
    /\ g_idx = 0
    /\ g_errors = <<>>
    /\ g_sent = <<>>
    /\ g_result = [kind |-> "none"]
    /\ RedactIdle
    /\ BatchIdle
    /\ MainIdle
    /\ MatrixIdle
    /\ DecodeIdle
    /\ ExtractIdle

\* lines 572-575: the import fails
GptImportFails ==
    /\ g_pc = "start"
    /\ ~g_openai
    /\ g_pc' = "raised"
    /\ g_result' = [kind |-> "raise", msg |-> <<"openai not installed">>]
    /\ UNCHANGED <<g_openai, g_env, g_api_keys, g_messages, g_keys, g_safe,
                   g_idx, g_errors, g_sent>>
    /\ UNCHANGED <<redactVars, batchVars, mainVars, matrixVars, decodeVars, extractVars>>

\* lines 577-583: no candidate key
GptNoKeys ==
    /\ g_pc = "start"
    /\ g_openai
    /\ CandidateKeys(g_env, g_api_keys) = <<>>
    /\ g_keys' = <<>>
    /\ g_pc' = "raised"
    /\ g_result' = [kind |-> "raise", msg |-> <<"no API key">>]
    /\ UNCHANGED <<g_openai, g_env, g_api_keys, g_messages, g_safe,
                   g_idx, g_errors, g_sent>>
    /\ UNCHANGED <<redactVars, batchVars, mainVars, matrixVars, decodeVars, extractVars>>

\* lines 577-597: the keys, the guardrail and the redacted messages
GptPrepare ==
    /\ g_pc = "start"
    /\ g_openai
    /\ CandidateKeys(g_env, g_api_keys) # <<>>
    /\ g_keys' = CandidateKeys(g_env, g_api_keys)
    /\ g_safe' = SafeMessages(g_messages)
    /\ g_errors' = <<>>
    /\ g_idx' = 1
    /\ g_pc' = "loop"
    /\ UNCHANGED <<g_openai, g_env, g_api_keys, g_messages, g_sent, g_result>>
    /\ UNCHANGED <<redactVars, batchVars, mainVars, matrixVars, decodeVars, extractVars>>

\* lines 598-610: one pass of the loop; the request succeeds or raises
GptAttempt ==
    /\ g_pc = "loop"
    /\ g_idx <= Len(g_keys)
    /\ g_sent' = Append(g_sent, [idx |-> g_idx, key |-> g_keys[g_idx],
                                 messages |-> g_safe])
    /\ \E ok \in BOOLEAN :
          IF ok
          THEN /\ g_result' = [kind |-> "return", content |-> "response", idx |-> g_idx]
               /\ g_pc' = "returned"
               /\ UNCHANGED <<g_idx, g_errors>>
          ELSE /\ g_errors' = Append(g_errors, [idx |-> g_idx, error |-> "request failed"])
               /\ g_idx' = g_idx + 1
               /\ UNCHANGED <<g_pc, g_result>>
    /\ UNCHANGED <<g_openai, g_env, g_api_keys, g_messages, g_keys, g_safe>>
    /\ UNCHANGED <<redactVars, batchVars, mainVars, matrixVars, decodeVars, extractVars>>

\* line 611: every key failed
GptAllFailed ==
    /\ g_pc = "loop"
    /\ g_idx > Len(g_keys)
    /\ g_pc' = "raised"
    /\ g_result' = [kind |-> "raise", msg |-> <<"all keys failed">>, errors |-> g_errors]
    /\ UNCHANGED <<g_openai, g_env, g_api_keys, g_messages, g_keys, g_safe,
                   g_idx, g_errors, g_sent>>
    /\ UNCHANGED <<redactVars, batchVars, mainVars, matrixVars, decodeVars, extractVars>>

GptNext ==
    \/ GptImportFails
    \/ GptNoKeys
    \/ GptPrepare
    \/ GptAttempt
    \/ GptAllFailed

SpecGpt == GptInit /\ [][GptNext]_vars

-----------------------------------------------------------------------------
(* _redact_secrets on bounded inputs: an input is a concatenation of at    *)
(* most MaxChunks pieces, chosen so that runs below and at the length      *)
(* threshold of the key pattern, assignments with either quote, with and   *)
(* without white space, and line breaks all occur.                         *)

MaxChunks == 5

\* half a key body: "sk-" and two of them is the shortest key
HalfRun == Rep("a", KeyMinLen \div 2)

Chunks == { SK,
            HalfRun,
            OPENAI_API_KEY,
            <<"=">>,
            <<"\"">>,
            <<"'">>,
            <<"\n">> }

ChunkSeqs == SeqsUpTo(Chunks, MaxChunks)

RedactInit ==
    /\ r_in \in { Concat(cs) : cs \in ChunkSeqs }
    /\ r_once = <<>>
    /\ r_twice = <<>>
    /\ r_pc = "input"
    /\ GptIdle
    /\ BatchIdle
    /\ MainIdle
    /\ MatrixIdle
    /\ DecodeIdle
    /\ ExtractIdle

RedactOnce ==
    /\ r_pc = "input"
    /\ r_once' = _redact_secrets(r_in)
    /\ r_pc' = "once"
    /\ UNCHANGED <<r_in, r_twice>>
    /\ UNCHANGED <<gptVars, batchVars, mainVars, matrixVars, decodeVars, extractVars>>

RedactTwice ==
    /\ r_pc = "once"
    /\ r_twice' = _redact_secrets(r_once)
    /\ r_pc' = "twice"
    /\ UNCHANGED <<r_in, r_once>>
    /\ UNCHANGED <<gptVars, batchVars, mainVars, matrixVars, decodeVars, extractVars>>

RedactNext == RedactOnce \/ RedactTwice

SpecRedact == RedactInit /\ [][RedactNext]_vars

-----------------------------------------------------------------------------
(* The report request of main (src/app.py:1263-1342): the button handler,  *)
(* which runs handle_uploaded_source_files and call_gpt_with_fallback.     *)

MaxReportFiles == 1

\* combined_text[:180000] (line 1288)
PromptTextMax == 180000

\* the fixed parts of the prompt (lines 1282-1287), abbreviated
PROMPT_HEAD == <<"s","u","m","m","a","r","i","s","e","\n","e","x","t","r","a",":"," ">>
PROMPT_DOCS == <<"\n","\n","[","d","o","c","s","]","\n">>
\* the system message of the report request (line 1293), abbreviated
REPORT_SYSTEM == [role |-> "system", content |-> <<"c","o","n","s","u","l","t","a","n","t">>]

Prefix(s, n) == SubSeq(s, 1, IF Len(s) < n THEN Len(s) ELSE n)

\* lines 1280-1289: the prompt built from the extra request and the combined text
ReportPrompt(extra, combined_text) ==
    PROMPT_HEAD \o _redact_secrets(extra) \o PROMPT_DOCS
    \o Prefix(combined_text, PromptTextMax) \o <<"\n">>

\* lines 1291-1295: the messages handed to call_gpt_with_fallback
ReportMessages(extra, combined_text) ==
    <<REPORT_SYSTEM, [role |-> "user", content |-> ReportPrompt(extra, combined_text)]>>

\* lines 1042-1045: the session state before any report was stored
FreshSession == [gpt_report_md |-> None, generated_src_pdfs |-> <<>>]

\* the session state left by an earlier request of the same session that
\* succeeded
PreviousSession ==
    [gpt_report_md |-> [kind |-> "md", content |-> "previous response"],
     generated_src_pdfs |->
         << [name |-> <<"o","l","d">> \o TXT_EXTRACT_PDF,
             bytes |-> [kind |-> "rendered", engine |-> "reportlab"]] >>]

\* a mutant of StoredSession: the PDFs of an earlier batch are kept
StoredSessionKeepsPdfs(session, report, pdfs) ==
    [session EXCEPT !.gpt_report_md = [kind |-> "md", content |-> report]]

\* lines 1303-1304: the two assignments to st.session_state
StoredSession(session, report, pdfs) ==
    [session EXCEPT !.gpt_report_md = [kind |-> "md", content |-> report],
                    !.generated_src_pdfs = pdfs]

ReportInit ==
    /\ m_pc = "clicked"
    /\ m_extra \in {<<>>, LeakText}
    /\ m_shown = <<>>
    /\ m_session \in {FreshSession, PreviousSession}
    /\ uploaded_files \in SeqsUpTo(UploadedItems, MaxReportFiles)
    /\ b_pc = "idle"
    /\ b_i = 0
    /\ combined_texts = <<>>
    /\ convert_logs = <<>>
    /\ generated_pdfs = <<>>
    /\ b_ret = [kind |-> "none"]
    /\ hwp = HwpFresh
    /\ fs = {}
    /\ calls = <<>>
    /\ g_pc = "idle"
    /\ g_openai \in BOOLEAN
    /\ g_env \in {<<>>, EnvKey}
    /\ g_api_keys = <<>>
    /\ g_messages = <<>>
    /\ g_keys = <<>>
    /\ g_safe = <<>>
    /\ g_idx = 0
    /\ g_errors = <<>>
    /\ g_sent = <<>>
    /\ g_result = [kind |-> "none"]
    /\ RedactIdle
    /\ MatrixIdle
    /\ DecodeIdle
    /\ ExtractIdle

\* lines 1264-1267: openai cannot be imported
ReportImportFails ==
    /\ m_pc = "clicked"
    /\ ~g_openai
    /\ m_shown' = Append(m_shown, "error: openai not installed")
    /\ m_pc' = "end"
    /\ UNCHANGED <<m_extra, m_session>>
    /\ UNCHANGED <<redactVars, gptVars, batchVars, matrixVars, decodeVars, extractVars>>

\* lines 1269-1270: no file was uploaded
ReportNoFiles ==
    /\ m_pc = "clicked"
    /\ g_openai
    /\ uploaded_files = <<>>
    /\ m_shown' = Append(m_shown, "warning: upload files first")
    /\ m_pc' = "end"
    /\ UNCHANGED <<m_extra, m_session>>
    /\ UNCHANGED <<redactVars, gptVars, batchVars, matrixVars, decodeVars, extractVars>>

\* lines 1271-1273: handle_uploaded_source_files(src_files) is entered
ReportStartBatch ==
    /\ m_pc = "clicked"
    /\ g_openai
    /\ uploaded_files # <<>>
    /\ m_pc' = "batch"
    /\ b_pc' = "loop"
    /\ b_i' = 1
    /\ UNCHANGED <<uploaded_files, combined_texts, convert_logs, generated_pdfs,
                   b_ret, hwp, fs, calls>>
    /\ UNCHANGED <<m_extra, m_shown, m_session>>
    /\ UNCHANGED <<redactVars, gptVars, matrixVars, decodeVars, extractVars>>

\* line 1273 is outside the try of line 1290: an exception of the batch
\* processor leaves the handler
ReportBatchRaised ==
    /\ m_pc = "batch"
    /\ b_pc = "raised"
    /\ m_pc' = "crashed"
    /\ UNCHANGED <<m_extra, m_shown, m_session>>
    /\ UNCHANGED <<redactVars, gptVars, batchVars, matrixVars, decodeVars, extractVars>>

\* lines 1274-1278: the logs are shown; no text was extracted
ReportNoText ==
    /\ m_pc = "batch"
    /\ b_pc = "done"
    /\ Strip(b_ret.text) = <<>>
    /\ m_shown' = m_shown \o <<"logs", "error: no text extracted">>
    /\ m_pc' = "end"
    /\ UNCHANGED <<m_extra, m_session>>
    /\ UNCHANGED <<redactVars, gptVars, batchVars, matrixVars, decodeVars, extractVars>>

\* lines 1274-1299: the logs are shown, the prompt is built and
\* call_gpt_with_fallback is entered
ReportCallGpt ==
    /\ m_pc = "batch"
    /\ b_pc = "done"
    /\ Strip(b_ret.text) # <<>>
    /\ m_shown' = Append(m_shown, "logs")
    /\ g_messages' = ReportMessages(m_extra, b_ret.text)
    /\ g_pc' = "start"
    /\ m_pc' = "gpt"
    /\ UNCHANGED <<g_openai, g_env, g_api_keys, g_keys, g_safe, g_idx, g_errors,
                   g_sent, g_result>>
    /\ UNCHANGED <<m_extra, m_session>>
    /\ UNCHANGED <<redactVars, batchVars, matrixVars, decodeVars, extractVars>>

\* lines 1300-1340: the report is shown and stored together with the PDFs of
\* this batch; the report is rendered to PDF for download
ReportSucceeded ==
    /\ m_pc = "gpt"
    /\ g_pc = "returned"
    /\ m_session' = StoredSession(m_session, g_result.content, b_ret.pdfs)
    /\ \E outcome \in RenderOutcomes :
          m_shown' = m_shown \o <<"report",
                                  IF Truthy(text_to_pdf_bytes_korean(outcome).pdf)
                                  THEN "download pdf" ELSE "error: pdf not rendered">>
    /\ m_pc' = "end"
    /\ UNCHANGED m_extra
    /\ UNCHANGED <<redactVars, gptVars, batchVars, matrixVars, decodeVars, extractVars>>

\* lines 1341-1342: call_gpt_with_fallback raised
ReportFailed ==
    /\ m_pc = "gpt"
    /\ g_pc = "raised"
    /\ m_shown' = Append(m_shown, "error: report generation failed")
    /\ m_pc' = "end"
    /\ UNCHANGED <<m_extra, m_session>>
    /\ UNCHANGED <<redactVars, gptVars, batchVars, matrixVars, decodeVars, extractVars>>

ReportNext ==
    \/ ReportImportFails
    \/ ReportNoFiles
    \/ ReportStartBatch
    \/ ItemPdf
    \/ ItemHwpx
    \/ ItemText
    \/ ItemDocx
    \/ ItemUnsupported
    \/ HwpStart
    \/ HwpAttempt1Setup
    \/ HwpAttempt1Run
    \/ HwpAttempt1Render
    \/ HwpAttempt2Setup
    \/ HwpAttempt2Run
    \/ HwpFinish
    \/ BatchReturn
    \/ ReportBatchRaised
    \/ ReportNoText
    \/ ReportCallGpt
    \/ GptNoKeys
    \/ GptPrepare
    \/ GptAttempt
    \/ GptAllFailed
    \/ ReportSucceeded
    \/ ReportFailed

SpecReport == ReportInit /\ [][ReportNext]_vars

-----------------------------------------------------------------------------
(* build_attachment_matrix (src/app.py:642-707) and its helpers _is_url    *)
(* (56-58) and _filename_from_url (60-67).  A cell of the data frame is    *)
(* NaN or a string.  A Hangul syllable is written as one element of a      *)
(* text, in capitals: <<"GYU","GYEOK","SEO">> is a text of three           *)
(* characters.                                                             *)

NaN == [kind |-> "nan"]
Cell(s) == [kind |-> "str", s |-> s]

\* str(v) of a cell value
PyStr(v) == IF v = NaN THEN <<"n","a","n">> ELSE v.s

HTTP == <<"h","t","t","p",":","/","/">>
HTTPS == <<"h","t","t","p","s",":","/","/">>

\* lines 56-58
_is_url(val) ==
    LET s == Strip(val) IN StartsWith(s, HTTP) \/ StartsWith(s, HTTPS)

\* lit in s
Contains(s, lit) == \E i \in 1..(Len(s) + 1) : MatchAt(s, i, lit)

\* the least index k >= 1 with s[k] in cs, 0 when there is none
FindAny(s, cs) ==
    LET M == {k \in 1..Len(s) : s[k] \in cs} IN
    IF M = {} THEN 0 ELSE CHOOSE k \in M : \A m \in M : k <= m

\* s.replace("\n", ";").split(";")
RECURSIVE SplitSemis(_)
SplitSemis(s) ==
    LET k == FindAny(s, {";", "\n"}) IN
    IF k = 0 THEN <<s>>
    ELSE <<SubSeq(s, 1, k - 1)>> \o SplitSemis(SubSeq(s, k + 1, Len(s)))

\* [t.strip() for t in s.replace("\n", ";").split(";")]
StrippedTokens(s) == LET toks == SplitSemis(s) IN [k \in 1..Len(toks) |-> Strip(toks[k])]

\* urllib.parse.urlparse(url).path of an http(s) URL: what follows the
\* network location, up to the query or the fragment, without the
\* parameters of its last segment
AfterScheme(url) ==
    SubSeq(url, (CHOOSE k \in 1..Len(url) : MatchAt(url, k, <<":","/","/">>)) + 3, Len(url))
AfterNetloc(rest) ==
    LET a == FindAny(rest, {"/", "?", "#"}) IN
    IF a = 0 THEN <<>> ELSE SubSeq(rest, a, Len(rest))
BeforeQuery(tail) ==
    LET q == FindAny(tail, {"?", "#"}) IN
    IF q = 0 THEN tail ELSE SubSeq(tail, 1, q - 1)
WithoutParams(path) ==
    LET p == FindAny(SubSeq(path, RFind(path, "/") + 1, Len(path)), {";"}) IN
    IF p = 0 THEN path ELSE SubSeq(path, 1, RFind(path, "/") + p - 1)
UrlPath(url) == WithoutParams(BeforeQuery(AfterNetloc(AfterScheme(url))))

HexDigits == <<"0","1","2","3","4","5","6","7","8","9","a","b","c","d","e","f">>
IsHex(c) == \E k \in 1..16 : HexDigits[k] = LowerChar(c)
HexVal(c) == (CHOOSE k \in 1..16 : HexDigits[k] = LowerChar(c)) - 1

\* urllib.parse.unquote on escapes of ASCII characters
RECURSIVE unquote(_)
UnquoteAt(s, k) ==
    IF k = 0 THEN s
    ELSE IF k + 2 <= Len(s) /\ IsHex(s[k + 1]) /\ IsHex(s[k + 2])
         THEN SubSeq(s, 1, k - 1) \o <<Chr(16 * HexVal(s[k + 1]) + HexVal(s[k + 2]))>>
              \o unquote(SubSeq(s, k + 3, Len(s)))
         ELSE SubSeq(s, 1, k) \o unquote(SubSeq(s, k + 1, Len(s)))
unquote(s) == UnquoteAt(s, FindAny(s, {"%"}))

\* lines 60-67, for a URL that urlparse accepts
\* a or b, for str
PyOr(a, b) == IF a = <<>> THEN b ELSE a

\* lines 63-65, given the path
FilenameOfPath(path, url) ==
    IF path = <<>> THEN url
    ELSE PyOr(unquote(SubSeq(path, RFind(path, "/") + 1, Len(path))), url)

\* lines 60-67, for a URL that urlparse accepts
_filename_from_url(url) == FilenameOfPath(UrlPath(url), url)

\* lines 664-671: the URLs of a URL cell that is not NaN
\* lines 665-669, given raw
UrlsOfRaw(raw) ==
    IF _is_url(raw) THEN <<raw>> ELSE SelectSeq(StrippedTokens(raw), _is_url)

\* lines 664-671: the URLs of a URL cell that is not NaN
CellUrls(url_val) == UrlsOfRaw(Strip(PyStr(url_val)))

\* a mutant of UrlsOfRaw: the cell is split whatever it starts with
UrlsOfRawAlwaysSplit(raw) == SelectSeq(StrippedTokens(raw), _is_url)

\* line 672
NameBase(name_val) == IF name_val = NaN THEN <<>> ELSE Strip(PyStr(name_val))

\* lines 673-675: the display name of the k-th URL (k counts from 1)
\* lines 673-675, given name_base
PickName(name_base, k, u) ==
    LET name_tokens == IF name_base # <<>> THEN StrippedTokens(name_base) ELSE <<>> IN
    IF k <= Len(name_tokens) /\ name_tokens[k] # <<>> THEN name_tokens[k]
    ELSE PyOr(name_base, _filename_from_url(u))

DispName(name_val, k, u) == PickName(NameBase(name_val), k, u)

\* the six categories, in the order of line 648: 본공고링크, 제안요청서,
\* 공고서, 과업지시서, 규격서, 기타
Categories == <<"main_link", "rfp", "notice", "task_order", "spec", "etc">>

KW_RFP_KO == <<"JE","AN","YO","CHEONG","SEO">>     \* 제안요청서
KW_RFP == <<"r","f","p">>
KW_NOTICE_SEO == <<"GONG","GO","SEO">>             \* 공고서
KW_NOTICE_MUN == <<"GONG","GO","MUN">>             \* 공고문
KW_TASK == <<"GWA","EOP","JI","SI","SEO">>         \* 과업지시서
KW_SPEC_KO == <<"GYU","GYEOK","SEO">>              \* 규격서
KW_SPEC == <<"s","p","e","c">>

\* line 676
LowName(disp_name, u) == StrLower(disp_name) \o <<" ">> \o StrLower(_filename_from_url(u))

\* a mutant of CategoryOf: the specification rule is tried before the
\* proposal-request rule
CategoryOfSpecFirst(low_name, u) ==
    IF Contains(low_name, KW_SPEC_KO) \/ Contains(low_name, KW_SPEC) THEN "spec"
    ELSE IF Contains(low_name, KW_RFP_KO) \/ Contains(low_name, KW_RFP) THEN "rfp"
    ELSE IF Contains(low_name, KW_NOTICE_SEO) \/ Contains(low_name, KW_NOTICE_MUN) THEN "notice"
    ELSE IF Contains(low_name, KW_TASK) THEN "task_order"
    ELSE IF Contains(u, HTTP) \/ Contains(u, HTTPS) THEN "main_link"
    ELSE "etc"

\* a mutant of CategoryOf: the main-link rule asks for http:// only
CategoryOfHttpOnly(low_name, u) ==
    IF Contains(low_name, KW_RFP_KO) \/ Contains(low_name, KW_RFP) THEN "rfp"
    ELSE IF Contains(low_name, KW_NOTICE_SEO) \/ Contains(low_name, KW_NOTICE_MUN) THEN "notice"
    ELSE IF Contains(low_name, KW_TASK) THEN "task_order"
    ELSE IF Contains(low_name, KW_SPEC_KO) \/ Contains(low_name, KW_SPEC) THEN "spec"
    ELSE IF Contains(u, HTTP) THEN "main_link"
    ELSE "etc"

\* lines 677-688: the category, given low_name
CategoryOf(low_name, u) ==
    IF Contains(low_name, KW_RFP_KO) \/ Contains(low_name, KW_RFP) THEN "rfp"
    ELSE IF Contains(low_name, KW_NOTICE_SEO) \/ Contains(low_name, KW_NOTICE_MUN) THEN "notice"
    ELSE IF Contains(low_name, KW_TASK) THEN "task_order"
    ELSE IF Contains(low_name, KW_SPEC_KO) \/ Contains(low_name, KW_SPEC) THEN "spec"
    ELSE IF Contains(u, HTTP) \/ Contains(u, HTTPS) THEN "main_link"
    ELSE "etc"

Classify(disp_name, u) == CategoryOf(LowName(disp_name, u), u)

-----------------------------------------------------------------------------
(* build_attachment_matrix: the data frames and the steps                  *)

MaxRows == 2

CatSet == {Categories[k] : k \in 1..Len(Categories)}

URL_A == HTTPS \o <<"a",".","t","e","s","t","/","x">>
URL_B == HTTPS \o <<"b",".","t","e","s","t","/","y">>
\* "https://b.test/%53pec": the file name decodes to "Spec"
URL_B_SPEC == HTTPS \o <<"b",".","t","e","s","t","/","%","5","3","p","e","c">>
URL_RFP_SPEC == HTTPS \o <<"x",".","t","e","s","t","/","r","f","p","_","s","p","e","c",".","p","d","f">>
NOT_A_URL == <<"n","o","t","-","a","-","u","r","l">>
\* "https://a.test/x;not-a-url;https://b.test/y"
MULTI_URL_CELL == URL_A \o <<";">> \o NOT_A_URL \o <<";">> \o URL_B

\* the frames have three columns: title_col, a name column, a URL column
MxTitles == {NaN, Cell(<<" ">>), Cell(<<"T","1">>), Cell(<<" ","T","0"," ">>)}
\* a name cell may itself hold a URL: line 657 takes every column after the
\* first as a URL column
MxNames == {NaN, Cell(URL_A), Cell(KW_RFP_KO \o <<";","S","p","e","c">>)}
MxUrls ==
    {NaN, Cell(NOT_A_URL), Cell(MULTI_URL_CELL), Cell(URL_RFP_SPEC),
     Cell(NOT_A_URL \o <<";">> \o URL_A \o <<"\n"," ">> \o URL_B_SPEC)}
MxRows == {<<t, n, u>> : t \in MxTitles, n \in MxNames, u \in MxUrls}

\* line 654
RowTitle(row) == Strip(PyStr(row[1]))

\* lines 676-688: the call of add_link for one URL
AddCall(title, disp_name, u) ==
    [title |-> title, category |-> Classify(disp_name, u), name |-> disp_name, url |-> u]

\* lines 674-688: the calls of add_link for the URLs of one cell, in order
UrlAdds(title, name_val, urls) ==
    [k \in 1..Len(urls) |-> AddCall(title, DispName(name_val, k, urls[k]), urls[k])]

\* lines 657-688 for column j (1-based: the URL column is row[j + 1], the
\* name column row[j])
ColumnAdds(row, j) ==
    IF row[j + 1] = NaN THEN <<>>
    ELSE UrlAdds(RowTitle(row), row[j], CellUrls(row[j + 1]))

\* lines 657-688 for one row
RECURSIVE RowAddsFrom(_, _)
RowAddsFrom(row, j) ==
    IF j >= Len(row) THEN <<>> ELSE ColumnAdds(row, j) \o RowAddsFrom(row, j + 1)

TitleIndex(buckets, title) ==
    IF \E k \in 1..Len(buckets) : buckets[k].title = title
    THEN CHOOSE k \in 1..Len(buckets) : buckets[k].title = title ELSE 0

\* a mutant of PutLink: a later name overwrites the first
PutLinkOverwrite(b1, t, call) ==
    LET d == b1[t].cats[call.category] IN
    IF \E k \in 1..Len(d) : d[k].url = call.url
    THEN [b1 EXCEPT ![t].cats[call.category] =
             [k \in 1..Len(d) |-> IF d[k].url = call.url
                                  THEN [url |-> call.url, name |-> call.name] ELSE d[k]]]
    ELSE [b1 EXCEPT ![t].cats[call.category] = Append(d, [url |-> call.url, name |-> call.name])]

\* lines 647-648
EnsureTitle(buckets, title) ==
    IF TitleIndex(buckets, title) = 0
    THEN Append(buckets, [title |-> title, cats |-> [c \in CatSet |-> <<>>]])
    ELSE buckets

\* lines 649-650, for the bucket at position t
PutLink(b1, t, call) ==
    LET d == b1[t].cats[call.category] IN
    IF \E k \in 1..Len(d) : d[k].url = call.url
    THEN b1
    ELSE [b1 EXCEPT ![t].cats[call.category] = Append(d, [url |-> call.url, name |-> call.name])]

\* lines 646-650
add_link(buckets, call) ==
    PutLink(EnsureTitle(buckets, call.title),
            TitleIndex(EnsureTitle(buckets, call.title), call.title), call)

RECURSIVE AddAll(_, _)
AddAll(buckets, adds) ==
    IF adds = <<>> THEN buckets ELSE AddAll(add_link(buckets, Head(adds)), Tail(adds))

\* lines 690-692: the cell of a category, its links in insertion order
\* (the " | " between two anchors is left out); "" is the empty sequence
join_html(d) == [k \in 1..Len(d) |-> [href |-> d[k].url, text |-> d[k].name]]

\* a mutant of SortByTitle: the rows stay in insertion order
KeepInsertionOrder(rows) == rows

\* line 706: sort_values(by=[title_col]) of rows with distinct titles
RECURSIVE SortByTitle(_)
SortByTitle(rows) ==
    IF rows = <<>> THEN <<>>
    ELSE LET m == CHOOSE k \in 1..Len(rows) :
                     \A j \in 1..Len(rows) : ~StrLess(rows[j].title, rows[k].title)
         IN <<rows[m]>>
            \o SortByTitle([j \in 1..(Len(rows) - 1) |-> IF j < m THEN rows[j] ELSE rows[j + 1]])

MatrixInit ==
    /\ mx_df = <<>>
    /\ mx_has_title \in BOOLEAN
    /\ mx_pc = "start"
    /\ mx_buckets = <<>>
    /\ mx_adds = <<>>
    /\ mx_ret = [kind |-> "none"]
    /\ RedactIdle
    /\ GptIdle
    /\ BatchIdle
    /\ MainIdle
    /\ DecodeIdle
    /\ ExtractIdle

\* lines 643-644: title_col is no column
MatrixNoTitleColumn ==
    /\ mx_pc = "start"
    /\ ~mx_has_title
    /\ mx_ret' = [kind |-> "frame", rows |-> <<>>]
    /\ mx_pc' = "returned"
    /\ UNCHANGED <<mx_df, mx_has_title, mx_buckets, mx_adds>>
    /\ UNCHANGED <<redactVars, gptVars, batchVars, mainVars, decodeVars, extractVars>>

\* lines 645-652
MatrixStart ==
    /\ mx_pc = "start"
    /\ mx_has_title
    /\ mx_pc' = "rows"
    /\ UNCHANGED <<mx_df, mx_has_title, mx_buckets, mx_adds, mx_ret>>
    /\ UNCHANGED <<redactVars, gptVars, batchVars, mainVars, decodeVars, extractVars>>

\* lines 653-656: iterrows() yields a row whose title is empty after
\* str().strip(); the row is skipped
MatrixSkipRow ==
    /\ mx_pc = "rows"
    /\ Len(mx_df) < MaxRows
    /\ \E row \in MxRows :
          /\ RowTitle(row) = <<>>
          /\ mx_df' = Append(mx_df, row)
    /\ UNCHANGED <<mx_has_title, mx_pc, mx_buckets, mx_adds, mx_ret>>
    /\ UNCHANGED <<redactVars, gptVars, batchVars, mainVars, decodeVars, extractVars>>

\* lines 653-688: iterrows() yields a row with a title
MatrixRow ==
    /\ mx_pc = "rows"
    /\ Len(mx_df) < MaxRows
    /\ \E row \in MxRows :
          /\ RowTitle(row) # <<>>
          /\ mx_df' = Append(mx_df, row)
          /\ mx_adds' = mx_adds \o RowAddsFrom(row, 1)
          /\ mx_buckets' = AddAll(mx_buckets, RowAddsFrom(row, 1))
    /\ UNCHANGED <<mx_has_title, mx_pc, mx_ret>>
    /\ UNCHANGED <<redactVars, gptVars, batchVars, mainVars, decodeVars, extractVars>>

\* lines 694-704
OutputRows(buckets) ==
    [k \in 1..Len(buckets) |->
        [title |-> buckets[k].title,
         cells |-> [c \in CatSet |-> join_html(buckets[k].cats[c])]]]

\* lines 694-707: iterrows() is exhausted; the rows are built and sorted; a
\* frame built from no row has no column, and sort_values(by=[title_col])
\* raises KeyError
MatrixFinish ==
    /\ mx_pc = "rows"
    /\ IF mx_buckets = <<>>
       THEN /\ mx_ret' = [kind |-> "raise", exc |-> "KeyError"]
            /\ mx_pc' = "raised"
       ELSE /\ mx_ret' = [kind |-> "frame", rows |-> SortByTitle(OutputRows(mx_buckets))]
            /\ mx_pc' = "returned"
    /\ UNCHANGED <<mx_df, mx_has_title, mx_buckets, mx_adds>>
    /\ UNCHANGED <<redactVars, gptVars, batchVars, mainVars, decodeVars, extractVars>>

MatrixNext ==
    \/ MatrixNoTitleColumn
    \/ MatrixStart
    \/ MatrixSkipRow
    \/ MatrixRow
    \/ MatrixFinish

SpecMatrix == MatrixInit /\ [][MatrixNext]_vars

-----------------------------------------------------------------------------
(* _decode_best_effort applied to one input (SpecDecode)                   *)

MaxBytes == 4

\* 'A'; a byte that is a UTF-8 continuation byte and no cp949 byte; lead and
\* trail bytes of the Korean code pages; the bytes of the BOM; a UTF-8 lead
\* byte of a three-byte sequence
DecodeBytes == {65, 128, 161, 176, 187, 191, 234, 239}

DecodeInit ==
    /\ d_raw \in SeqsUpTo(DecodeBytes, MaxBytes)
    /\ d_pc = "start"
    /\ d_ret = [kind |-> "none"]
    /\ RedactIdle
    /\ GptIdle
    /\ BatchIdle
    /\ MainIdle
    /\ MatrixIdle
    /\ ExtractIdle

\* lines 48-54: the call and its return
DecodeCall ==
    /\ d_pc = "start"
    /\ d_ret' = [kind |-> "str", text |-> _decode_best_effort(d_raw)]
    /\ d_pc' = "returned"
    /\ UNCHANGED d_raw
    /\ UNCHANGED <<redactVars, gptVars, batchVars, mainVars, matrixVars, extractVars>>

\* the same call made again on the same bytes
DecodeAgain ==
    /\ d_pc = "returned"
    /\ d_ret' = [kind |-> "again", text |-> _decode_best_effort(d_raw), first |-> d_ret.text]
    /\ d_pc' = "repeated"
    /\ UNCHANGED d_raw
    /\ UNCHANGED <<redactVars, gptVars, batchVars, mainVars, matrixVars, extractVars>>

DecodeNext == DecodeCall \/ DecodeAgain

SpecDecode == DecodeInit /\ [][DecodeNext]_vars

-----------------------------------------------------------------------------

(* extract_text_from_pdf and extract_text_from_hwpx_bytes applied to one   *)
(* document (SpecExtract)                                                  *)

MaxPages == 3
MaxEntries == 3

\* what page.extract_text() does for a page: a text, None, or an exception
PdfPages ==
    { [kind |-> "text", text |-> <<" ","p","1"," ">>],
      [kind |-> "text", text |-> <<"p","2","\n">>],
      [kind |-> "none"],
      [kind |-> "raise"] }

PdfDocs ==
    {[kind |-> "corrupt"]}
    \cup {[kind |-> "pdf", pages |-> ps] : ps \in SeqsUpTo(PdfPages, MaxPages)}

\* the members of an archive: section files that parse, with and without
\* text, a section file that does not parse, and a file outside Contents/
HwpxEntries ==
    { [name |-> CONTENTS_DIR \o <<"s","1">> \o DOT_XML, ok |-> TRUE,
       elems |-> << [tag |-> <<"h","p",":","t">>, text |-> <<" ","o","n","e"," ">>],
                    [tag |-> <<"h","p",":","p">>, text |-> <<"x">>],
                    [tag |-> <<"h","p",":","r","u","n">>, text |-> <<"r">>] >>],
      [name |-> CONTENTS_DIR \o <<"s","0">> \o <<".","X","M","L">>, ok |-> TRUE,
       elems |-> << [tag |-> <<"p","a","r","a">>, text |-> <<"z","e","r","o">>] >>],
      [name |-> CONTENTS_DIR \o <<"s","2">> \o DOT_XML, ok |-> FALSE, elems |-> <<>>],
      [name |-> CONTENTS_DIR \o <<"s","3">> \o DOT_XML, ok |-> TRUE,
       elems |-> << [tag |-> <<"h","p",":","t">>, text |-> <<" ">>] >>],
      [name |-> <<"m","e","t","a">> \o DOT_XML, ok |-> TRUE,
       elems |-> << [tag |-> <<"t">>, text |-> <<"n","o">>] >>] }

HwpxDocs ==
    {[kind |-> "notzip"]}
    \cup {[kind |-> "zip", entries |-> es] : es \in SeqsUpTo(HwpxEntries, MaxEntries)}

ExtractInit ==
    /\ x_doc \in PdfDocs \cup HwpxDocs
    /\ x_pc = "start"
    /\ x_ret = <<>>
    /\ RedactIdle
    /\ GptIdle
    /\ BatchIdle
    /\ MainIdle
    /\ MatrixIdle
    /\ DecodeIdle

\* lines 350-360
ExtractPdf ==
    /\ x_pc = "start"
    /\ x_doc \in PdfDocs
    /\ x_ret' = extract_text_from_pdf(x_doc)
    /\ x_pc' = "returned"
    /\ UNCHANGED x_doc
    /\ UNCHANGED <<redactVars, gptVars, batchVars, mainVars, matrixVars, decodeVars>>

\* lines 363-392
ExtractHwpx ==
    /\ x_pc = "start"
    /\ x_doc \in HwpxDocs
    /\ x_ret' = extract_text_from_hwpx_bytes(x_doc)
    /\ x_pc' = "returned"
    /\ UNCHANGED x_doc
    /\ UNCHANGED <<redactVars, gptVars, batchVars, mainVars, matrixVars, decodeVars>>

ExtractNext == ExtractPdf \/ ExtractHwpx

SpecExtract == ExtractInit /\ [][ExtractNext]_vars

-----------------------------------------------------------------------------

(* Claims about the legacy pipeline and the batch processor (Spec).  The   *)
(* locals of _convert_hwp_priority are read where it has returned          *)
(* (b_pc = "hwp_ret"), before the batch processor takes the result up.     *)

\* hwp5txt ran and exited with code 0 and a non-empty standard output
DirectToolSucceeded ==
    hwp.a1 = "exit" /\ hwp.rc1 = 0 /\ hwp.stdout1 # <<>>

\* the fragments of a status message
Fragments(dbg) == {dbg[k] : k \in 1..Len(dbg)}

\* C1: whenever hwp5txt succeeds on a .hwp input, _convert_hwp_priority runs
\* exactly one external tool (hwp5txt, never the PDF converter) and returns
\* an artifact whose file name ends in _txt_extract.pdf.
C1_DirectSuccessOneCall ==
    (b_pc = "hwp_ret" /\ DirectToolSucceeded) =>
        /\ calls = <<"hwp5txt">>
        /\ hwp.ret.pdf # None
        /\ EndsWith(hwp.ret.pdf.name, TXT_EXTRACT_PDF)

\* C2: when hwp5txt is not installed and the converter succeeds in producing
\* a PDF (it exits with code 0 and leaves a PDF file that has bytes), the
\* text returned is extract_text_from_pdf of those bytes and the artifact is
\* that PDF under a name ending in _converted.pdf.
C2_FallbackTextFromPdf ==
    (b_pc = "hwp_ret" /\ hwp.a1 = "missing" /\ hwp.a2 = "exit" /\ hwp.rc2 = 0
        /\ Truthy(hwp.made2)) =>
        /\ hwp.ret.txt = extract_text_from_pdf(hwp.made2)
        /\ hwp.ret.pdf # None
        /\ EndsWith(hwp.ret.pdf.name, CONVERTED_PDF)
        /\ hwp.ret.pdf.bytes = hwp.made2

\* hwp5txt missing, the converter made a three-page PDF, and the text came
\* back stripped and newline-joined, the page without text as an empty line
C2_Witness ==
    /\ b_pc = "hwp_ret"
    /\ hwp.a1 = "missing" /\ hwp.a2 = "exit" /\ hwp.rc2 = 0
    /\ hwp.made2.kind = "pdf"
    /\ calls # <<>>
    /\ hwp.ret.txt = <<"p","1"," ","\n","\n","p","3">>
    /\ hwp.ret.pdf.name = <<"b">> \o CONVERTED_PDF

\* C3: with none of hwp5txt, unoconv, soffice and libreoffice installed,
\* _convert_hwp_priority returns (empty text, no artifact, status), and the
\* status holds the not-installed reason of Attempt 1 and that of Attempt 2.
C3_AllToolsAbsent ==
    (b_pc = "hwp_ret" /\ hwp.a1 = "missing" /\ hwp.a2 # "none"
        /\ ~hwp.unoconv_bin /\ ~hwp.soffice_bin) =>
        /\ hwp.ret.txt = <<>>
        /\ hwp.ret.pdf = None
        /\ HWP5TXT_MISSING \in Fragments(hwp.ret.dbg)
        /\ CONVERTER_MISSING \in Fragments(hwp.ret.dbg)

\* C4: once _convert_hwp_priority has finished, by returning or by raising,
\* no temporary input file and no temporary output directory exists.
C4_NoTempLeft ==
    b_pc \in {"hwp_ret", "loop", "done", "raised"} => fs = {}

\* an attempt failed by a missing tool, a timeout or a non-zero exit code
Attempt1Failed ==
    hwp.a1 \in {"missing", "timeout"} \/ (hwp.a1 = "exit" /\ hwp.rc1 # 0)
Attempt2Failed ==
    hwp.a2 \in {"missing", "timeout"} \/ (hwp.a2 = "exit" /\ hwp.rc2 # 0)

\* C5: a missing tool, a non-zero exit code or a timeout never leaves
\* _convert_hwp_priority as an exception; after such a failure of Attempt 1,
\* Attempt 2 is tried; after such a failure of Attempt 2 the result is
\* (empty text, no artifact, a diagnostic message).
C5_FailuresNotPropagated ==
    /\ b_pc = "raised" => ~Attempt1Failed /\ ~Attempt2Failed
    /\ (b_pc = "hwp_ret" /\ Attempt1Failed) => hwp.a2 # "none"
    /\ (b_pc = "hwp_ret" /\ Attempt2Failed) =>
          /\ hwp.ret.txt = <<>>
          /\ hwp.ret.pdf = None
          /\ hwp.ret.dbg # <<>>

\* the kind of each tool run
ToolKind(tool) == IF tool = "hwp5txt" THEN "direct" ELSE "converter"
CallKinds == [k \in 1..Len(calls) |-> ToolKind(calls[k])]

\* C6, as stated: the tools run for one file are always a prefix of
\* <<direct-extraction tool, PDF converter>>, the converter only after
\* Attempt 1 has finished with no text.
C6_CallsArePrefix ==
    /\ CallKinds \in {<<>>, <<"direct">>, <<"direct", "converter">>}
    /\ "converter" \in Fragments(CallKinds) => (hwp.a1 # "none" /\ hwp.txt1 = <<>>)

\* C6, amended: the tools run for one file are always a subsequence of
\* <<direct-extraction tool, PDF converter>> (the converter alone when
\* hwp5txt is not installed): each tool runs at most once, so an attempt
\* that timed out is not retried, and the converter runs only after
\* Attempt 1 has finished with no text.
C6_CallsInOrder ==
    /\ CallKinds \in {<<>>, <<"direct">>, <<"converter">>, <<"direct", "converter">>}
    /\ "converter" \in Fragments(CallKinds) => (hwp.a1 # "none" /\ hwp.txt1 = <<>>)

\* hwp5txt timed out and then the converter timed out: two runs, no retry
C6_Witness ==
    /\ b_pc = "hwp_ret"
    /\ hwp.a1 = "timeout" /\ hwp.a2 = "timeout"
    /\ calls = <<"hwp5txt", "unoconv">>

\* C7: handle_uploaded_source_files never ends by an exception, whatever
\* fails for an item, and when it returns every uploaded item has a log line.
C7_BatchNeverAborts ==
    /\ b_pc # "raised"
    /\ b_pc = "done" =>
          \A k \in 1..Len(uploaded_files) :
              \E j \in 1..Len(convert_logs) : convert_logs[j].name = uploaded_files[k].name

\* C8: the combined text returned by handle_uploaded_source_files holds no
\* key-shaped token (sk- and 20 or more characters of [A-Za-z0-9_-]).
C8_NoKeyInCombinedText ==
    b_pc = "done" => ~HasKey(b_ret.text)

-----------------------------------------------------------------------------
-----------------------------------------------------------------------------
\* C10: in every request of call_gpt_with_fallback, whichever credential it
\* uses, the messages sent are the guardrail system message followed by the
\* caller's messages in the caller's order with the same roles, each content
\* redacted; no content sent holds a key-shaped token.
C10_SentMessagesRedacted ==
    \A n \in 1..Len(g_sent) :
        LET sent == g_sent[n].messages IN
        /\ Len(sent) = Len(g_messages) + 1
        /\ sent[1] = guardrail_system
        /\ \A i \in 1..Len(g_messages) :
              /\ sent[i + 1].role = g_messages[i].role
              /\ sent[i + 1].content = _redact_secrets(g_messages[i].content)
              /\ ~HasKey(sent[i + 1].content)

\* a second credential is tried for a call whose second message holds a key
C10_Witness ==
    /\ Len(g_sent) >= 2
    /\ Len(g_messages) >= 2
    /\ HasKey(g_messages[2].content)
    /\ g_messages[1].content # g_messages[2].content

-----------------------------------------------------------------------------
(* Claims about the order of the credentials (SpecGpt)                     *)

\* the entries of API_KEYS that count as credentials, in their order
AppCandidates ==
    SelectSeq(g_api_keys, LAMBDA k : k # <<>> /\ ~StartsWith(k, SK_REPLACE))

\* C11: call_gpt_with_fallback tries the candidate credentials in order, the
\* environment credential first and then those of API_KEYS, each position
\* once; it returns the 1-based index of the first credential whose request
\* succeeds and tries none after it; it raises the combined failure, with one
\* error per credential, only when every credential was tried and failed.
C11_KeysTriedInOrder ==
    /\ Len(g_sent) <= Len(g_keys)
    /\ \A n \in 1..Len(g_sent) : g_sent[n].idx = n /\ g_sent[n].key = g_keys[n]
    /\ g_keys # <<>> =>
          g_keys = (IF g_env # <<>> THEN <<g_env>> ELSE <<>>) \o AppCandidates
    /\ \A n \in 1..Len(g_errors) : g_errors[n].idx = n
    /\ g_pc = "loop" => Len(g_errors) = Len(g_sent)
    /\ g_pc = "returned" =>
          /\ g_result.kind = "return"
          /\ g_result.idx = Len(g_sent)
          /\ Len(g_errors) = g_result.idx - 1
    /\ (g_pc = "raised" /\ g_keys # <<>>) =>
          /\ Len(g_sent) = Len(g_keys)
          /\ Len(g_errors) = Len(g_keys)
          /\ g_result.errors = g_errors

\* the environment credential failed, the first of API_KEYS succeeded, and a
\* third candidate was left untried
C11_Witness ==
    /\ g_pc = "returned"
    /\ g_env = EnvKey
    /\ Len(g_keys) = 3
    /\ g_result.idx = 2
    /\ Len(g_sent) = 2
    /\ g_sent[1].key = EnvKey /\ g_sent[2].key = AppKey

-----------------------------------------------------------------------------
(* Claims about the report request (SpecReport)                            *)

\* C12: when a report is requested while no credential is configured, or
\* while no file is supplied, nothing is processed before the error is
\* shown: handle_uploaded_source_files is not entered, no item is extracted
\* or converted, no temporary file is written and no external tool is run.
C12_ErrorBeforeProcessing ==
    (m_pc # "idle" /\ (CandidateKeys(g_env, g_api_keys) = <<>> \/ uploaded_files = <<>>)) =>
        /\ b_pc = "idle"
        /\ combined_texts = <<>>
        /\ convert_logs = <<>>
        /\ generated_pdfs = <<>>
        /\ fs = {}
        /\ calls = <<>>

-----------------------------------------------------------------------------
(* Claims about build_attachment_matrix (SpecMatrix)                       *)

\* the tokens of a cell that are absolute URLs, in their order
UrlTokens(cell) ==
    IF cell = NaN THEN <<>>
    ELSE SelectSeq(StrippedTokens(Strip(PyStr(cell))), _is_url)

\* the rows that have a title: the title cell is there and is not blank
HasTitle(row) == row[1] # NaN /\ Strip(row[1].s) # <<>>

\* the URL tokens of all the cells of the rows that have a title, in the
\* order of the rows and columns
RECURSIVE TokensOfRows(_)
TokensOfRows(rows) ==
    IF rows = <<>> THEN <<>>
    ELSE (IF HasTitle(Head(rows))
          THEN UrlTokens(Head(rows)[2]) \o UrlTokens(Head(rows)[3]) ELSE <<>>)
         \o TokensOfRows(Tail(rows))

\* C13: a multi-valued URL cell contributes one add_link entry per token that
\* is an absolute URL; the cell "https://a.test/x;not-a-url;https://b.test/y"
\* contributes exactly two, for https://a.test/x and for https://b.test/y.
C13_OneEntryPerUrlToken ==
    /\ (\A i \in 1..Len(mx_df) : HasTitle(mx_df[i])) =>
          [k \in 1..Len(mx_adds) |-> mx_adds[k].url] = TokensOfRows(mx_df)
    /\ (Len(mx_df) = 1 /\ HasTitle(mx_df[1]) /\ mx_df[1][2] = NaN
           /\ mx_df[1][3] = Cell(MULTI_URL_CELL)) =>
          [k \in 1..Len(mx_adds) |-> mx_adds[k].url] = <<URL_A, URL_B>>

\* the name given in the first add_link call for (title, url), whatever the
\* category
FirstNameOf(title, url) ==
    LET M == {k \in 1..Len(mx_adds) : mx_adds[k].title = title /\ mx_adds[k].url = url}
    IN mx_adds[CHOOSE k \in M : \A m \in M : k <= m].name

\* the name given in the first add_link call for (title, category, url)
FirstNameIn(title, category, url) ==
    LET M == {k \in 1..Len(mx_adds) :
                 /\ mx_adds[k].title = title
                 /\ mx_adds[k].category = category
                 /\ mx_adds[k].url = url}
    IN mx_adds[CHOOSE k \in M : \A m \in M : k <= m].name

\* C14, as stated: in the output row of a title, a URL carries only the
\* display name of the first row that gave it; a later name never appears.
C14_FirstNameInRow ==
    mx_ret.kind = "frame" =>
        \A r \in 1..Len(mx_ret.rows) : \A c \in CatSet :
            \A k \in 1..Len(mx_ret.rows[r].cells[c]) :
                LET a == mx_ret.rows[r].cells[c][k] IN
                a.text = FirstNameOf(mx_ret.rows[r].title, a.href)

\* C14, amended: in each (title, category) bucket a URL carries the display
\* name of the first add_link call for that title, category and URL; a later
\* name for the same bucket never replaces it.  (A later row whose name puts
\* the URL into another category adds it there under the later name.)
C14_FirstNameInBucket ==
    mx_ret.kind = "frame" =>
        \A r \in 1..Len(mx_ret.rows) : \A c \in CatSet :
            \A k \in 1..Len(mx_ret.rows[r].cells[c]) :
                LET a == mx_ret.rows[r].cells[c][k] IN
                a.text = FirstNameIn(mx_ret.rows[r].title, c, a.href)

\* two rows gave the same title and URL under different names that fall into
\* the same category, and the table was returned
C14_Witness ==
    /\ mx_pc = "returned" /\ mx_has_title
    /\ Len(mx_df) = 2
    /\ \E i, j \in 1..Len(mx_adds) :
          /\ i < j
          /\ mx_adds[i].title = mx_adds[j].title
          /\ mx_adds[i].url = mx_adds[j].url
          /\ mx_adds[i].category = mx_adds[j].category
          /\ mx_adds[i].name # mx_adds[j].name
          /\ mx_df[1][3] = mx_df[2][3]
          /\ mx_df[1][2] # mx_df[2][2]

\* a keyword occurs, whatever the case, in the display name or in the
\* filename of the URL
Matches(kw, name, url) ==
    \/ Contains(StrLower(name), kw)
    \/ Contains(StrLower(_filename_from_url(url)), kw)

\* the six rules in their order; the rule of a category holds for a pair
RuleHolds(c, name, url) ==
    CASE c = "rfp" -> Matches(KW_RFP_KO, name, url) \/ Matches(KW_RFP, name, url)
      [] c = "notice" -> Matches(KW_NOTICE_SEO, name, url) \/ Matches(KW_NOTICE_MUN, name, url)
      [] c = "task_order" -> Matches(KW_TASK, name, url)
      [] c = "spec" -> Matches(KW_SPEC_KO, name, url) \/ Matches(KW_SPEC, name, url)
      [] c = "main_link" -> Contains(url, HTTP) \/ Contains(url, HTTPS)
      [] OTHER -> TRUE

RuleOrder == <<"rfp", "notice", "task_order", "spec", "main_link", "etc">>

FirstRule(name, url) ==
    RuleOrder[CHOOSE i \in 1..Len(RuleOrder) :
                 /\ RuleHolds(RuleOrder[i], name, url)
                 /\ \A j \in 1..(i - 1) : ~RuleHolds(RuleOrder[j], name, url)]

\* C15: every (name, url) pair is placed in exactly one of the six
\* categories, that of the first rule that matches in the order RFP, notice,
\* task order, specification, main link, miscellaneous, matched whatever the
\* case on the display name and the filename of the URL; the pair
\* (name with the RFP keyword, https://x.test/rfp_spec.pdf) goes to the RFP
\* category and not to the specification category.
C15_FirstMatchingCategory ==
    /\ \A k \in 1..Len(mx_adds) :
          mx_adds[k].category = FirstRule(mx_adds[k].name, mx_adds[k].url)
    /\ \A t \in 1..Len(mx_buckets) : \A c \in CatSet :
          \A k \in 1..Len(mx_buckets[t].cats[c]) :
              c = FirstRule(mx_buckets[t].cats[c][k].name, mx_buckets[t].cats[c][k].url)
    /\ mx_ret.kind = "frame" =>
          \A r \in 1..Len(mx_ret.rows) : \A c \in CatSet :
              \A k \in 1..Len(mx_ret.rows[r].cells[c]) :
                  c = FirstRule(mx_ret.rows[r].cells[c][k].text,
                                mx_ret.rows[r].cells[c][k].href)

\* the table was returned with https://x.test/rfp_spec.pdf, named with the RFP
\* keyword, in the RFP cell, and with a link whose name matches only through
\* an upper-case letter
C15_Witness ==
    /\ mx_pc = "returned" /\ mx_has_title
    /\ \E r \in 1..Len(mx_ret.rows) :
          /\ \E k \in 1..Len(mx_ret.rows[r].cells["rfp"]) :
                /\ mx_ret.rows[r].cells["rfp"][k].href = URL_RFP_SPEC
                /\ mx_ret.rows[r].cells["rfp"][k].text = KW_RFP_KO
          /\ mx_ret.rows[r].cells["spec"] = <<>>
    /\ \E r \in 1..Len(mx_ret.rows) :
          \E k \in 1..Len(mx_ret.rows[r].cells["spec"]) :
              /\ ~Contains(mx_ret.rows[r].cells["spec"][k].text, KW_SPEC)
              /\ ~Contains(mx_ret.rows[r].cells["spec"][k].href, KW_SPEC)

\* C16: a row whose title is empty, made of white space only or missing is
\* skipped entirely: it contributes no output row and no link, and the call
\* does not raise.
C16_BlankTitleSkipped ==
    /\ (\E i \in 1..Len(mx_df) : ~HasTitle(mx_df[i])) => mx_pc # "raised"
    /\ \A k \in 1..Len(mx_adds) :
          \E i \in 1..Len(mx_df) :
              HasTitle(mx_df[i]) /\ Strip(mx_df[i][1].s) = mx_adds[k].title
    /\ mx_ret.kind = "frame" =>
          \A r \in 1..Len(mx_ret.rows) :
              \E i \in 1..Len(mx_df) :
                  HasTitle(mx_df[i]) /\ Strip(mx_df[i][1].s) = mx_ret.rows[r].title

\* the titles of the add_link calls
AddTitles == {mx_adds[k].title : k \in 1..Len(mx_adds)}

\* C17: the returned table has exactly one row per distinct trimmed title
\* that contributed a link, the rows are in ascending order of title, and a
\* URL occurs at most once in a (title, category) cell.
C17_OneSortedRowPerTitle ==
    mx_ret.kind = "frame" =>
        /\ {mx_ret.rows[r].title : r \in 1..Len(mx_ret.rows)} = AddTitles
        /\ Len(mx_ret.rows) = Cardinality(AddTitles)
        /\ \A r \in 1..(Len(mx_ret.rows) - 1) :
              StrLess(mx_ret.rows[r].title, mx_ret.rows[r + 1].title)
        /\ \A r \in 1..Len(mx_ret.rows) : \A c \in CatSet :
              \A k, m \in 1..Len(mx_ret.rows[r].cells[c]) :
                  mx_ret.rows[r].cells[c][k].href = mx_ret.rows[r].cells[c][m].href => k = m
        /\ \A r \in 1..Len(mx_ret.rows) :
              mx_ret.rows[r].title = Strip(mx_ret.rows[r].title)

\* the table was returned with two rows whose titles were met in descending
\* order, and a URL was given twice for one (title, category) cell
C17_Witness ==
    /\ mx_pc = "returned" /\ mx_has_title
    /\ Len(mx_ret.rows) = 2
    /\ StrLess(mx_buckets[2].title, mx_buckets[1].title)
    /\ \E i, j \in 1..Len(mx_adds) :
          /\ i < j
          /\ mx_adds[i].title = mx_adds[j].title
          /\ mx_adds[i].url = mx_adds[j].url
          /\ mx_adds[i].category = mx_adds[j].category

-----------------------------------------------------------------------------
(* Claims about _decode_best_effort (SpecDecode)                           *)

Encodings == <<"utf-8-sig", "utf-8", "cp949", "euc-kr">>

\* bytes.decode(enc) does not raise
Accepts(enc, raw) ==
    CASE enc = "utf-8-sig" ->
            Utf8Valid(IF StartsWith(raw, BOM) THEN SubSeq(raw, 4, Len(raw)) ELSE raw, 1)
      [] enc = "utf-8" -> Utf8Valid(raw, 1)
      [] enc = "cp949" -> DbcsValid("cp949", raw, 1)
      [] enc = "euc-kr" -> DbcsValid("euckr", raw, 1)

\* what bytes.decode(enc) returns for bytes it accepts
DecodeWith(enc, raw) ==
    CASE enc = "utf-8-sig" ->
            Utf8Chars(IF StartsWith(raw, BOM) THEN SubSeq(raw, 4, Len(raw)) ELSE raw, 1)
      [] enc = "utf-8" -> Utf8Chars(raw, 1)
      [] enc = "cp949" -> DbcsChars("cp949", raw, 1)
      [] enc = "euc-kr" -> DbcsChars("euckr", raw, 1)

AcceptingEncodings(raw) == {i \in 1..Len(Encodings) : Accepts(Encodings[i], raw)}

FirstAccepted(raw) ==
    Encodings[CHOOSE i \in AcceptingEncodings(raw) : \A j \in AcceptingEncodings(raw) : i <= j]

\* C18: for any bytes _decode_best_effort returns a string and does not
\* raise; the string is the decoding under the first of utf-8-sig, utf-8,
\* cp949, euc-kr that accepts the bytes, and the UTF-8 decoding that drops
\* the invalid bytes when none accepts; the same bytes give the same string.
C18_DecodeFirstAccepted ==
    /\ d_pc \in {"returned", "repeated"} =>
          /\ d_ret.kind \in {"str", "again"}
          /\ d_ret.text \in Seq(STRING)
          /\ d_ret.text =
                IF AcceptingEncodings(d_raw) # {}
                THEN DecodeWith(FirstAccepted(d_raw), d_raw)
                ELSE Utf8Chars(d_raw, 1)
    /\ d_pc = "repeated" => d_ret.text = d_ret.first

\* bytes that cp949 too would accept were decoded as UTF-8
C18_Witness ==
    /\ d_pc = "repeated"
    /\ d_raw = <<234, 176, 161, 65>>
    /\ Accepts("cp949", d_raw)
    /\ d_ret.text = <<"utf8:234:176:161", "A">>

-----------------------------------------------------------------------------
(* Claims about the order of the outputs of the batch (Spec)               *)

\* an output element comes from an uploaded item: a log line bears its name,
\* a text block opens with its banner, an artifact is named after its root
Owns(kind, item, out) ==
    CASE kind = "log" -> out.name = item.name
      [] kind = "text" -> StartsWith(out, BANNER_OPEN \o item.name \o <<"]">>)
      [] kind = "pdf" -> StartsWith(out.name, splitext_root(basename(item.name)) \o <<"_">>)

\* outs is made of one run of elements per item, in the order of the items,
\* each run of at least min elements that come from its item; got counts the
\* elements already given to the first item
RECURSIVE InOrder(_, _, _, _, _)
InOrder(kind, items, outs, min, got) ==
    IF items = <<>> THEN outs = <<>>
    ELSE \/ got >= min /\ InOrder(kind, Tail(items), outs, min, 0)
         \/ /\ outs # <<>>
            /\ Owns(kind, Head(items), Head(outs))
            /\ InOrder(kind, items, Tail(outs), min, got + 1)

\* C19: handle_uploaded_source_files keeps the input order in its three
\* outputs (the text blocks, the log lines and the PDF artifacts of an item
\* precede those of every later item), and every uploaded item produces at
\* least one log line.
C19_InputOrderKept ==
    b_pc \in {"done", "raised"} =>
        /\ InOrder("log", uploaded_files, convert_logs, 1, 0)
        /\ InOrder("text", uploaded_files, combined_texts, 0, 0)
        /\ InOrder("pdf", uploaded_files, generated_pdfs, 0, 0)

\* Attempt 1 was made and gave no text, and Attempt 2 was made and gave no
\* PDF: a tool missing, a time-out, a failure to start, a failure to make the
\* temporary files, a non-zero exit code of unoconv, no PDF in the output
\* directory or an empty one
BothAttemptsFailed ==
    /\ b_pc = "hwp_ret"
    /\ hwp.a1 \in {"missing", "timeout", "error", "exit"}
    /\ hwp.txt1 = <<>>
    /\ \/ hwp.a2 \in {"missing", "timeout", "error", "io_error"}
       \/ /\ hwp.a2 = "exit"
          /\ \/ hwp.tool2 = "unoconv" /\ hwp.rc2 # 0
             \/ hwp.made2 = None
             \/ ~Truthy(hwp.made2)

\* C20: when both attempts fail for a .hwp item, the batch goes on: the
\* diagnostic of the two attempts and a failure line are appended to the log,
\* nothing is appended to the combined text and to the artifacts, and the
\* loop moves to the next item.
C20_BothFailedBatchGoesOn ==
    [][BothAttemptsFailed =>
          /\ Len(convert_logs') = Len(convert_logs) + 2
          /\ SubSeq(convert_logs', 1, Len(convert_logs)) = convert_logs
          /\ convert_logs'[Len(convert_logs) + 1].name = uploaded_files[b_i].name
          /\ convert_logs'[Len(convert_logs) + 1].kind = "hwp_status"
          /\ StartsWith(convert_logs'[Len(convert_logs) + 1].detail,
                        <<ATTEMPT1_FAILED>> \o hwp.dbg1 \o <<" / ">>)
          /\ Len(convert_logs'[Len(convert_logs) + 1].detail) > Len(hwp.dbg1) + 2
          /\ convert_logs'[Len(convert_logs) + 2] =
                LogLine(uploaded_files[b_i].name, "hwp_failed", <<>>)
          /\ combined_texts' = combined_texts
          /\ generated_pdfs' = generated_pdfs
          /\ b_i' = b_i + 1
          /\ b_pc' = "loop"]_vars

\* the batch returned after a .hwp item whose two attempts failed and a text
\* file that followed it
C20_Witness ==
    /\ b_pc = "done"
    /\ Len(uploaded_files) = 2
    /\ ExtOf(uploaded_files[1].name) = <<".","h","w","p">>
    /\ ExtOf(uploaded_files[2].name) \in TEXT_EXTS
    /\ Len(convert_logs) = 3
    /\ convert_logs[1].kind = "hwp_status"
    /\ StartsWith(convert_logs[1].detail, <<ATTEMPT1_FAILED>>)
    /\ convert_logs[2].kind = "hwp_failed"
    /\ convert_logs[3].kind = "text_loaded"
    /\ Len(combined_texts) = 1
    /\ generated_pdfs = <<>>

-----------------------------------------------------------------------------
(* Claims about the extractors (SpecExtract)                               *)

\* the text of a page, the empty string when its extraction fails
PageTextOrEmpty(page) == IF page.kind = "text" THEN page.text ELSE <<>>

\* C21: when the text of a page cannot be extracted, that page gives the
\* empty string and the texts of the other pages are returned, joined by
\* newlines in page order; the document is not given up for one page.
C21_PageFailureIsEmptyPage ==
    (x_pc = "returned" /\ x_doc.kind = "pdf") =>
        x_ret = Strip(Join(<<"\n">>,
                           [k \in 1..Len(x_doc.pages) |-> PageTextOrEmpty(x_doc.pages[k])]))

-----------------------------------------------------------------------------
(* Claims about the callers of the PDF extractor (Spec)                    *)

\* the extraction of a PDF failed: the text begins with the error marker
SoftFailure(txt) == StartsWith(txt, PDF_FAIL_MARKER)

\* C22: both callers of extract_text_from_pdf treat a text that begins with
\* the error marker as a soft failure: the item is reported as failed in its
\* log line or status, and the error string is not passed on as the text of
\* the document.
C22_MarkerIsSoftFailure ==
    /\ \A k \in 1..Len(combined_texts) : ~Contains(combined_texts[k], PDF_FAIL_MARKER)
    /\ \A k \in 1..Len(convert_logs) :
          \A j \in 1..Len(uploaded_files) :
              (/\ j < b_i
               /\ uploaded_files[j].name = convert_logs[k].name
               /\ ExtOf(uploaded_files[j].name) = <<".","p","d","f">>
               /\ SoftFailure(extract_text_from_pdf(uploaded_files[j].data)))
              => convert_logs[k].kind # "pdf_done"
    /\ (b_pc = "hwp_ret" /\ Truthy(hwp.made2)
          /\ SoftFailure(extract_text_from_pdf(hwp.made2))) =>
          /\ hwp.ret.txt = <<>>
          /\ ~StartsWith(hwp.ret.dbg, <<"OK[unoconv/soffice->PDF]">>)

-----------------------------------------------------------------------------
(* Claims about extract_text_from_hwpx_bytes (SpecExtract)                 *)

\* the positions of the archive's members that are section files: under
\* Contents/ and named .xml whatever the case
SectionPositions(es) ==
    {k \in 1..Len(es) :
        /\ Len(es[k].name) >= Len(CONTENTS_DIR)
        /\ SubSeq(es[k].name, 1, Len(CONTENTS_DIR)) = CONTENTS_DIR
        /\ StrLower(SubSeq(es[k].name, Len(es[k].name) - Len(DOT_XML) + 1, Len(es[k].name)))
              = DOT_XML}

\* what one section file gives: a warning that names it when it does not
\* parse, its kept texts joined by newlines otherwise (nothing when it has
\* none)
EntryLines(e) ==
    IF ~e.ok THEN <<HwpxWarning(e.name)>>
    ELSE IF TextParts(e.elems) = <<>> THEN <<>>
    ELSE <<Join(<<"\n">>, TextParts(e.elems))>>

\* lines is the concatenation of what the entries give, in their order
RECURSIVE LinesOf(_)
LinesOf(es) == IF es = <<>> THEN <<>> ELSE EntryLines(Head(es)) \o LinesOf(Tail(es))

\* C23: the entries under the content directory are processed in sorted name
\* order; an entry whose XML does not parse yields a warning at its position
\* and the other entries are still extracted; only an archive that cannot be
\* opened yields a single error string for the whole call.
C23_SortedEntriesInlineWarnings ==
    (x_pc = "returned" /\ x_doc.kind \in {"zip", "notzip"}) =>
        /\ x_doc.kind = "notzip" <=> x_ret = HWPX_ZIP_FAIL
        /\ x_doc.kind = "zip" =>
              \E sorted \in SeqsUpTo(SectionPositions(x_doc.entries), Len(x_doc.entries)) :
                  /\ Len(sorted) = Cardinality(SectionPositions(x_doc.entries))
                  /\ \A i, j \in 1..Len(sorted) : i # j => sorted[i] # sorted[j]
                  /\ \A i \in 1..(Len(sorted) - 1) :
                        ~StrLess(x_doc.entries[sorted[i + 1]].name, x_doc.entries[sorted[i]].name)
                  /\ x_ret = Strip(Join(<<"\n","\n">>,
                                        LinesOf([i \in 1..Len(sorted) |-> x_doc.entries[sorted[i]]])))

\* an archive whose section files were given out of order, the one that does
\* not parse between two that do, was extracted
C23_Witness ==
    /\ x_pc = "returned"
    /\ x_doc.kind = "zip"
    /\ Len(x_doc.entries) = 3
    /\ x_doc.entries[1].name = CONTENTS_DIR \o <<"s","3">> \o DOT_XML
    /\ ~x_doc.entries[2].ok
    /\ x_doc.entries[3].name = CONTENTS_DIR \o <<"s","1">> \o DOT_XML
    /\ x_ret = <<"o","n","e","\n","r","\n","\n">> \o HwpxWarning(x_doc.entries[2].name)

-----------------------------------------------------------------------------
(* Claims about the two attempts of the legacy pipeline (Spec)             *)

\* C24: whenever hwp5txt exits with code 0 and a non-empty standard output,
\* Attempt 1 is a success: the trimmed output is the text returned, Attempt 2
\* is not entered, and the status does not say that Attempt 1 failed.
C24_ZeroExitWithOutputSucceeds ==
    DirectToolSucceeded =>
        /\ b_pc \notin {"a2", "a2_run"}
        /\ b_pc = "hwp_ret" =>
              /\ hwp.ret.txt = Strip(hwp.stdout1)
              /\ hwp.a2 = "none"
              /\ ATTEMPT1_FAILED \notin Fragments(hwp.ret.dbg)

\* C25: a converter that exits with a non-zero code makes Attempt 2 fail,
\* whichever converter it was: no text and no artifact come from that run.
C25_NonZeroExitFails ==
    (b_pc = "hwp_ret" /\ hwp.a2 = "exit" /\ hwp.rc2 # 0) =>
        /\ hwp.ret.pdf = None
        /\ hwp.ret.txt = <<>>
        /\ ATTEMPT1_FAILED \in Fragments(hwp.ret.dbg)

\* the converters run for the current file, in order
ConverterCalls == SelectSeq(calls, LAMBDA t : t # "hwp5txt")

-----------------------------------------------------------------------------
(* Claims about the display names and the empty table (SpecMatrix)         *)

\* the tokens of a name cell, trimmed; none for a missing or blank cell
NameTokens(cell) ==
    IF cell = NaN \/ Strip(PyStr(cell)) = <<>> THEN <<>>
    ELSE StrippedTokens(Strip(PyStr(cell)))

\* the display name of the k-th URL u of a cell, given the name cell: its
\* k-th token when there is one that is not blank, else the whole name cell,
\* else the decoded last segment of the path of the URL
ExpectedName(cell, k, u) ==
    IF k <= Len(NameTokens(cell)) /\ NameTokens(cell)[k] # <<>> THEN NameTokens(cell)[k]
    ELSE IF cell # NaN /\ Strip(PyStr(cell)) # <<>> THEN Strip(PyStr(cell))
    ELSE _filename_from_url(u)

\* the k-th URL of the URL cell of column j of a row is a link of the row's
\* title under the expected name
NamedAsExpected(row, j, k) ==
    \E a \in 1..Len(mx_adds) :
        /\ mx_adds[a].title = Strip(row[1].s)
        /\ mx_adds[a].url = UrlTokens(row[j + 1])[k]
        /\ mx_adds[a].name = ExpectedName(row[j], k, UrlTokens(row[j + 1])[k])

\* C27: the k-th URL of a cell is named by the k-th token of the name cell
\* when that token is there and not blank, else by the whole name cell, else
\* by the decoded last path segment of the URL; no display name is blank.
C27_KthUrlGetsKthName ==
    /\ \A i \in 1..Len(mx_df) :
          HasTitle(mx_df[i]) =>
              \A j \in 1..(Len(mx_df[i]) - 1) :
                  \A k \in 1..Len(UrlTokens(mx_df[i][j + 1])) :
                      NamedAsExpected(mx_df[i], j, k)
    /\ \A a \in 1..Len(mx_adds) : mx_adds[a].name # <<>>

\* no row of the frame contributes a link: every row has a blank title or
\* cells without a URL token
NoRowContributes ==
    \A i \in 1..Len(mx_df) :
        HasTitle(mx_df[i]) =>
            \A j \in 1..(Len(mx_df[i]) - 1) : UrlTokens(mx_df[i][j + 1]) = <<>>

\* C28: for a frame that has the title column and in which no row contributes
\* a link, build_attachment_matrix returns an empty table and does not raise.
C28_EmptyTableReturned ==
    (mx_has_title /\ mx_pc \in {"returned", "raised"} /\ NoRowContributes) =>
        mx_ret = [kind |-> "frame", rows |-> <<>>]

\* every link that reaches classification is an absolute URL
ClassifiedAreUrls ==
    \A a \in 1..Len(mx_adds) :
        \/ SubSeq(mx_adds[a].url, 1, Len(HTTP)) = HTTP
        \/ SubSeq(mx_adds[a].url, 1, Len(HTTPS)) = HTTPS

\* C29: the miscellaneous category is never populated: every link that is
\* classified is an absolute URL, so a link that matches no keyword rule goes
\* to the main-link category, and the miscellaneous cell of every output row
\* is empty.
C29_MiscNeverPopulated ==
    /\ ClassifiedAreUrls
    /\ \A a \in 1..Len(mx_adds) : mx_adds[a].category # "etc"
    /\ \A a \in 1..Len(mx_adds) :
          \/ mx_adds[a].category = "main_link"
          \/ \E c \in {"rfp", "notice", "task_order", "spec"} :
                 RuleHolds(c, mx_adds[a].name, mx_adds[a].url)
    /\ \A t \in 1..Len(mx_buckets) : mx_buckets[t].cats["etc"] = <<>>
    /\ mx_ret.kind = "frame" =>
          \A r \in 1..Len(mx_ret.rows) : mx_ret.rows[r].cells["etc"] = <<>>

\* a table was returned with a link that matches no keyword rule, in the
\* main-link cell
C29_Witness ==
    /\ mx_pc = "returned" /\ mx_has_title
    /\ \E r \in 1..Len(mx_ret.rows) :
          /\ mx_ret.rows[r].cells["main_link"] # <<>>
          /\ mx_ret.rows[r].cells["etc"] = <<>>
          /\ \E k \in 1..Len(mx_ret.rows[r].cells["main_link"]) :
                \A c \in {"rfp", "notice", "task_order", "spec"} :
                    ~RuleHolds(c, mx_ret.rows[r].cells["main_link"][k].text,
                               mx_ret.rows[r].cells["main_link"][k].href)

-----------------------------------------------------------------------------
(* Claims about the session state (SpecReport)                             *)

\* C30: the stored report and the stored PDFs change only when a report
\* request succeeds, and then both are replaced together, by the report and
\* by the PDFs of the batch of that request; when no text was extracted or
\* the call of the model failed, both stay as they were.
C30_SessionReplacedTogether ==
    [][/\ m_session' # m_session =>
             /\ m_pc = "gpt" /\ g_pc = "returned" /\ b_pc = "done"
             /\ m_session'.gpt_report_md = [kind |-> "md", content |-> g_result.content]
             /\ m_session'.generated_src_pdfs = b_ret.pdfs
             /\ b_ret.pdfs = generated_pdfs
       /\ (m_pc' \in {"end", "crashed"} /\ g_pc # "returned") => m_session' = m_session
      ]_vars

\* a request succeeded in a session that held an earlier report: the report
\* and the PDFs stored are those of this request
C30_Witness ==
    /\ m_pc = "end"
    /\ g_pc = "returned"
    /\ m_session.gpt_report_md = [kind |-> "md", content |-> g_result.content]
    /\ m_session.gpt_report_md # PreviousSession.gpt_report_md
    /\ m_session.generated_src_pdfs = generated_pdfs
    /\ generated_pdfs # <<>>
    /\ generated_pdfs # PreviousSession.generated_src_pdfs

\* a request that failed left the earlier report and its PDFs in the session
C30_WitnessFailed ==
    /\ m_pc = "end"
    /\ g_pc = "raised"
    /\ generated_pdfs # <<>>
    /\ m_session = PreviousSession

====
